---- MODULE Spec2Model ----
(***************************************************************************)
(* Daily Effectiveness Logger: the metrics engine (lib/calculations.ts),   *)
(* the IndexedDB-backed DatabaseManager (lib/database.ts, in its two       *)
(* builds) and the handlers of the pages that connect them.                *)
(*                                                                         *)
(* Numbers.  JavaScript numbers that can be fractional are kept exact:     *)
(*   - points are held in sixtieths of a point (PointScale), which is      *)
(*     exact for integer hourly rates and minute-granular time spans;      *)
(*   - quotients (ratios, throughput) are held as a pair num/den, den > 0. *)
(* Strings that are compared by order (date keys) are sequences of         *)
(* character codes.                                                        *)
(***************************************************************************)
EXTENDS Integers, Sequences, FiniteSets, TLC

\* ------------------------------------------------------------------------
\* Bounds of the model
\* ------------------------------------------------------------------------

\* most records (activities plus vitality entries) of one day handed to
\* calculateDailyMetrics
MaxDayRecords == 3

\* record ids per object store in the store specification
MaxIds == 2

\* most records the database holds in the store specification
MaxRecords == 2

\* ------------------------------------------------------------------------
\* State
\* ------------------------------------------------------------------------

VARIABLES
  dayActivities,        \* the activities array handed to calculateDailyMetrics
  dayVitalityEntries,   \* the vitalityEntries array handed to it
  metrics,              \* the DailyMetrics it returned
  prevMetrics,          \* the DailyMetrics of the call before
  lastAdded,            \* which array the last call had one more element of
  build,                \* which DatabaseManager runs: "v1" or "v2"
  db,                   \* DatabaseManager.db: "null" or "open"
  diskVersion,          \* the version of the database on disk, 0 for none
  stores,               \* the object stores of the database, by name
  lastCall,             \* the last DatabaseManager call and how it settled
  goalProgress,         \* DailyGoals: the progress of the day's goals
  energyFocusData,      \* TrendAnalysis: deep-work hours by energy level
  dailyGoals,           \* localStorage item 'dailyGoals': the goals of all days
  toggles,              \* Dashboard: the handleVitalityToggle calls in flight
  trendData,            \* TrendAnalysis: the metrics of each day of the window
  categoryTimeData,     \* TrendAnalysis: the minutes of each category
  dayCell,              \* MonthlyOverview: a day of the calendar as rendered
  mounted,              \* the page the router shows and where its mount effect is
  timezone,             \* the minutes local time is ahead of UTC
  calendar,             \* MonthlyOverview: its state and its loads in flight
  form,                 \* ActivityLogForm: its fields and the toast it showed last
  tasksPage,            \* Tasks: the list it holds and its handlers in flight
  seeds                 \* the initializeDefaultData calls in flight

metricVars ==
  << dayActivities, dayVitalityEntries, metrics, prevMetrics, lastAdded >>

storeVars == << build, db, diskVersion, stores, lastCall >>

pageVars ==
  << goalProgress, energyFocusData, dailyGoals, toggles, trendData, categoryTimeData,
     dayCell >>

viewVars == << metricVars, pageVars >>

tabVars == << timezone, calendar, form, tasksPage, seeds >>

shellVars == << mounted, tabVars >>

vars == << metricVars, storeVars, pageVars, shellVars >>

\* ------------------------------------------------------------------------
\* Exact arithmetic
\* ------------------------------------------------------------------------

\* points are stored as sixtieths of a point
PointScale == 60

Rat(n, d) == [num |-> n, den |-> d]

RatZero == Rat(0, 1)

RatEq(a, b) == a.num * b.den = b.num * a.den

RatLeq(a, b) == a.num * b.den <= b.num * a.den

RatOfInt(n) == Rat(n, 1)

\* ------------------------------------------------------------------------
\* Reference data (lib/database.ts)
\* ------------------------------------------------------------------------

Category(id, name, points) == [id |-> id, name |-> name, points |-> points]

defaultCategories ==
  << Category("deep-work", "Deep Work", 3),
     Category("shallow-work", "Shallow Work", 1),
     Category("learning", "Learning", 2),
     Category("meetings", "Meetings", 1),
     Category("personal-care", "Personal Care", 1),
     Category("distraction", "Distraction", -1) >>

Bonus(id, name, points) == [id |-> id, name |-> name, points |-> points]

defaultVitalityBonuses ==
  << Bonus("sleep", "Quality Sleep", 5),
     Bonus("exercise", "Exercise", 5),
     Bonus("meditation", "Meditation", 3),
     Bonus("planning", "Daily Planning", 2) >>

\* ------------------------------------------------------------------------
\* The calendar's colours (MonthlyOverview); a score is in sixtieths of a point
\* ------------------------------------------------------------------------

getScoreColor(score) ==
  IF score >= 20 * PointScale THEN "bg-emerald-500"
  ELSE IF score >= 15 * PointScale THEN "bg-green-500"
  ELSE IF score >= 10 * PointScale THEN "bg-yellow-500"
  ELSE IF score >= 5 * PointScale THEN "bg-orange-500"
  ELSE IF score > 0 THEN "bg-red-500"
  ELSE "bg-gray-300"

\* variant: a score of exactly 5 falls to the tier below
getScoreOpacity_AboveFive(score) ==
  IF score >= 20 * PointScale THEN "opacity-100"
  ELSE IF score >= 15 * PointScale THEN "opacity-80"
  ELSE IF score >= 10 * PointScale THEN "opacity-60"
  ELSE IF score > 5 * PointScale THEN "opacity-40"
  ELSE IF score > 0 THEN "opacity-30"
  ELSE "opacity-10"

getScoreOpacity(score) ==
  IF score >= 20 * PointScale THEN "opacity-100"
  ELSE IF score >= 15 * PointScale THEN "opacity-80"
  ELSE IF score >= 10 * PointScale THEN "opacity-60"
  ELSE IF score >= 5 * PointScale THEN "opacity-40"
  ELSE IF score > 0 THEN "opacity-30"
  ELSE "opacity-10"

\* the classes of a day of the calendar with the score
DayCell(score) ==
  [totalScore |-> score, color |-> getScoreColor(score),
   opacity |-> getScoreOpacity(score)]

\* ------------------------------------------------------------------------
\* calculateDailyMetrics (lib/calculations.ts)
\* ------------------------------------------------------------------------

\* new Map(array.map(x => [x.id, x])): a later element with the same id wins
MapById(arr) ==
  [k \in {arr[i].id : i \in DOMAIN arr} |->
     arr[CHOOSE i \in DOMAIN arr :
           /\ arr[i].id = k
           /\ \A j \in DOMAIN arr : arr[j].id = k => j <= i]]

ZeroAcc ==
  [totalActivityScore |-> 0, totalTimeLogged |-> 0, deepWorkTime |-> 0,
   distractionTime |-> 0, positivePoints |-> 0,
   energyFocusCorrelation |-> [high |-> 0, medium |-> 0, low |-> 0]]

\* the energy bucket an activity of the focus category is added to
EnergyBucket(energyLevel) ==
  IF energyLevel = "High" THEN "high"
  ELSE IF energyLevel = "Medium" THEN "medium"
  ELSE "low"

\* ActivityStep with the time logged counted only for positive points
ActivityStep_TimeOnlyIfPositive(acc, activity, categoryMap) ==
  IF activity.categoryId \notin DOMAIN categoryMap THEN acc
  ELSE
    LET category == categoryMap[activity.categoryId]
        a1 == [acc EXCEPT !.totalActivityScore = @ + activity.points]
        a2 == IF activity.points > 0
              THEN [a1 EXCEPT !.positivePoints = @ + activity.points,
                              !.totalTimeLogged = @ + activity.duration]
              ELSE a1
    IN  IF category.name = "Deep Work"
        THEN [a2 EXCEPT !.deepWorkTime = @ + activity.duration,
                        !.energyFocusCorrelation[EnergyBucket(activity.energyLevel)] =
                            @ + activity.duration]
        ELSE IF category.name = "Distraction"
        THEN [a2 EXCEPT !.distractionTime = @ + activity.duration]
        ELSE a2

\* ActivityStep without the test points > 0
ActivityStep_AllPointsPositive(acc, activity, categoryMap) ==
  IF activity.categoryId \notin DOMAIN categoryMap THEN acc
  ELSE
    LET category == categoryMap[activity.categoryId]
        a2 == [acc EXCEPT !.totalActivityScore = @ + activity.points,
                          !.totalTimeLogged = @ + activity.duration,
                          !.positivePoints = @ + activity.points]
    IN  IF category.name = "Deep Work"
        THEN [a2 EXCEPT !.deepWorkTime = @ + activity.duration,
                        !.energyFocusCorrelation[EnergyBucket(activity.energyLevel)] =
                            @ + activity.duration]
        ELSE IF category.name = "Distraction"
        THEN [a2 EXCEPT !.distractionTime = @ + activity.duration]
        ELSE a2

\* ActivityStep with the test for a missing category after the score and the
\* time have been added
ActivityStep_LateCategoryGuard(acc, activity, categoryMap) ==
  LET a1 == [acc EXCEPT !.totalActivityScore = @ + activity.points,
                        !.totalTimeLogged = @ + activity.duration]
      a2 == IF activity.points > 0
            THEN [a1 EXCEPT !.positivePoints = @ + activity.points]
            ELSE a1
  IN  IF activity.categoryId \notin DOMAIN categoryMap THEN a2
      ELSE
        LET category == categoryMap[activity.categoryId]
        IN  IF category.name = "Deep Work"
            THEN [a2 EXCEPT !.deepWorkTime = @ + activity.duration,
                            !.energyFocusCorrelation[EnergyBucket(activity.energyLevel)] =
                                @ + activity.duration]
            ELSE IF category.name = "Distraction"
            THEN [a2 EXCEPT !.distractionTime = @ + activity.duration]
            ELSE a2

\* one iteration of activities.forEach
ActivityStep(acc, activity, categoryMap) ==
  IF activity.categoryId \notin DOMAIN categoryMap THEN acc
  ELSE
    LET category == categoryMap[activity.categoryId]
        a1 == [acc EXCEPT !.totalActivityScore = @ + activity.points,
                          !.totalTimeLogged = @ + activity.duration]
        a2 == IF activity.points > 0
              THEN [a1 EXCEPT !.positivePoints = @ + activity.points]
              ELSE a1
    IN  IF category.name = "Deep Work"
        THEN [a2 EXCEPT !.deepWorkTime = @ + activity.duration,
                        !.energyFocusCorrelation[EnergyBucket(activity.energyLevel)] =
                            @ + activity.duration]
        ELSE IF category.name = "Distraction"
        THEN [a2 EXCEPT !.distractionTime = @ + activity.duration]
        ELSE a2

RECURSIVE FoldActivities(_, _, _, _)
FoldActivities(acc, activities, i, categoryMap) ==
  IF i > Len(activities) THEN acc
  ELSE FoldActivities(ActivityStep(acc, activities[i], categoryMap),
                      activities, i + 1, categoryMap)

\* VitalityStep without the test entry.completed
VitalityStep_IgnoresCompleted(totalVitalityScore, entry, vitalityMap) ==
  IF entry.bonusId \in DOMAIN vitalityMap
  THEN totalVitalityScore + vitalityMap[entry.bonusId].points * PointScale
  ELSE totalVitalityScore

\* one iteration of vitalityEntries.forEach
VitalityStep(totalVitalityScore, entry, vitalityMap) ==
  IF entry.completed /\ entry.bonusId \in DOMAIN vitalityMap
  THEN totalVitalityScore + vitalityMap[entry.bonusId].points * PointScale
  ELSE totalVitalityScore

RECURSIVE FoldVitality(_, _, _, _)
FoldVitality(total, vitalityEntries, i, vitalityMap) ==
  IF i > Len(vitalityEntries) THEN total
  ELSE FoldVitality(VitalityStep(total, vitalityEntries[i], vitalityMap),
                    vitalityEntries, i + 1, vitalityMap)

\* calculateDailyMetrics with the throughput per minute, not per hour
calculateDailyMetrics_PerMinute(activities, categories, vitalityEntries, vitalityBonuses) ==
  LET acc == FoldActivities(ZeroAcc, activities, 1, MapById(categories))
      totalVitalityScore ==
        FoldVitality(0, vitalityEntries, 1, MapById(vitalityBonuses))
      totalTimeLogged == acc.totalTimeLogged
  IN  [totalScore |-> acc.totalActivityScore + totalVitalityScore,
       focusRatio |->
         IF totalTimeLogged > 0
         THEN Rat(acc.deepWorkTime * 100, totalTimeLogged) ELSE RatZero,
       distractionRatio |->
         IF totalTimeLogged > 0
         THEN Rat(acc.distractionTime * 100, totalTimeLogged) ELSE RatZero,
       productivityThroughput |->
         IF totalTimeLogged > 0
         THEN Rat(acc.positivePoints, totalTimeLogged) ELSE RatZero,
       totalTimeLogged |-> totalTimeLogged,
       energyFocusCorrelation |-> acc.energyFocusCorrelation]

\* totalScore and productivityThroughput are in sixtieths of a point
calculateDailyMetrics(activities, categories, vitalityEntries, vitalityBonuses) ==
  LET acc == FoldActivities(ZeroAcc, activities, 1, MapById(categories))
      totalVitalityScore ==
        FoldVitality(0, vitalityEntries, 1, MapById(vitalityBonuses))
      totalTimeLogged == acc.totalTimeLogged
  IN  [totalScore |-> acc.totalActivityScore + totalVitalityScore,
       focusRatio |->
         IF totalTimeLogged > 0
         THEN Rat(acc.deepWorkTime * 100, totalTimeLogged) ELSE RatZero,
       distractionRatio |->
         IF totalTimeLogged > 0
         THEN Rat(acc.distractionTime * 100, totalTimeLogged) ELSE RatZero,
       productivityThroughput |->
         IF totalTimeLogged > 0
         THEN Rat(acc.positivePoints * 60, totalTimeLogged) ELSE RatZero,
       totalTimeLogged |-> totalTimeLogged,
       energyFocusCorrelation |-> acc.energyFocusCorrelation]

\* ------------------------------------------------------------------------
\* Strings and dates
\* ------------------------------------------------------------------------

\* A string that is compared by order is the sequence of its character codes.
\* the decimal digits of n, width characters wide, zero padded
RECURSIVE PadStart(_, _)
PadStart(n, width) ==
  IF width = 0 THEN << >>
  ELSE PadStart(n \div 10, width - 1) \o << 48 + (n % 10) >>

\* the order of strings as IndexedDB keys: by code unit, a prefix first
RECURSIVE KeyLess(_, _)
KeyLess(a, b) ==
  IF a = << >> THEN b # << >>
  ELSE IF b = << >> THEN FALSE
  ELSE IF Head(a) # Head(b) THEN Head(a) < Head(b)
  ELSE KeyLess(Tail(a), Tail(b))

KeyLeq(a, b) == a = b \/ KeyLess(a, b)

\* A Date is an instant: the minutes since 2024-01-01T00:00Z.
\* the lengths of the months of 2024
MonthLengths == << 31, 29, 31, 30, 31, 30, 31, 31, 30, 31, 30, 31 >>

\* <<month, day of month>> of the day-th day (from 0) after the start of month
RECURSIVE MonthAndDay(_, _)
MonthAndDay(day, month) ==
  IF day < MonthLengths[month] THEN << month, day + 1 >>
  ELSE MonthAndDay(day - MonthLengths[month], month + 1)

\* Date.prototype.toISOString().split('T')[0]: the UTC calendar day, YYYY-MM-DD
getDateString(date) ==
  LET md == MonthAndDay(date \div 1440, 1)
  IN  PadStart(2024, 4) \o << 45 >> \o PadStart(md[1], 2) \o << 45 >> \o PadStart(md[2], 2)

\* ------------------------------------------------------------------------
\* IndexedDB: object stores with a 'date' index, requests and key ranges
\* ------------------------------------------------------------------------

\* an object store with keyPath 'id': its records by key, and the entries
\* <<date, key>> of its 'date' index when it has one
ObjectStore(hasDateIndex) ==
  [records |-> << >>, hasDateIndex |-> hasDateIndex, dateIndex |-> {}]

Succeeded(store, value) ==
  [outcome |-> "resolved", error |-> "none", store |-> store, value |-> value]

Failed(store, error) ==
  [outcome |-> "rejected", error |-> error, store |-> store, value |-> << >>]

\* the index entries of a store after the record of key is replaced by value
Reindexed(store, key, dates) ==
  IF store.hasDateIndex
  THEN {e \in store.dateIndex : e[2] # key} \cup {<< d, key >> : d \in dates}
  ELSE {}

\* IDBObjectStore.put(value): insert, or replace the record with value's
\* key; the index has no entry for a record without the index's key path
IDBPut(store, value) ==
  Succeeded([store EXCEPT
               !.records = [k \in DOMAIN store.records \cup {value.id} |->
                              IF k = value.id THEN value ELSE store.records[k]],
               !.dateIndex = Reindexed(store, value.id,
                                       IF "date" \in DOMAIN value THEN {value.date}
                                       ELSE {})],
            << >>)

\* IDBObjectStore.add(value): insert; a record with value's key is a
\* ConstraintError, which aborts the transaction
IDBAdd(store, value) ==
  IF value.id \in DOMAIN store.records
  THEN Failed(store, "ConstraintError")
  ELSE IDBPut(store, value)

\* IDBObjectStore.delete(key): succeeds whether or not a record has the key
IDBDelete(store, key) ==
  Succeeded([store EXCEPT
               !.records = [k \in DOMAIN store.records \ {key} |-> store.records[k]],
               !.dateIndex = Reindexed(store, key, {})],
            << >>)

\* IDBObjectStore.count()
IDBCount(store) == Succeeded(store, Cardinality(DOMAIN store.records))

\* every primary key of the model, in the order of IndexedDB string keys;
\* "id-n" stands for the n-th UUID of crypto.randomUUID() in that order
KeyOrder ==
  << "deep-work", "distraction", "exercise", "id-1", "id-2", "id-3", "id-4",
     "learning", "meditation", "meetings", "personal-care", "planning",
     "shallow-work", "sleep" >>

KeyRank(key) == CHOOSE i \in DOMAIN KeyOrder : KeyOrder[i] = key

\* the keys in S in ascending order
RECURSIVE Ascending(_)
Ascending(S) ==
  IF S = {} THEN << >>
  ELSE LET least == CHOOSE k \in S : \A other \in S : KeyRank(k) <= KeyRank(other)
       IN  << least >> \o Ascending(S \ {least})

\* IDBObjectStore.getAll(): every record, in key order
IDBGetAll(store) ==
  LET keys == Ascending(DOMAIN store.records)
  IN  Succeeded(store, [i \in DOMAIN keys |-> store.records[keys[i]]])

\* index entries in the order of the index: by date, then by primary key
RECURSIVE IndexOrder(_)
IndexOrder(entries) ==
  IF entries = {} THEN << >>
  ELSE LET first == CHOOSE e \in entries :
                      \A o \in entries :
                        \/ KeyLess(e[1], o[1])
                        \/ e[1] = o[1] /\ KeyRank(e[2]) <= KeyRank(o[2])
       IN  << first >> \o IndexOrder(entries \ {first})

KeyRange(lower, upper, lowerOpen, upperOpen) ==
  [lower |-> lower, upper |-> upper, lowerOpen |-> lowerOpen, upperOpen |-> upperOpen]

\* IDBKeyRange.only(key), the range of index.getAll(key)
KeyRangeOnly(key) == KeyRange(key, key, FALSE, FALSE)

\* IDBKeyRange.bound with the upper end open
KeyRangeBound_UpperOpen(lower, upper) == KeyRange(lower, upper, FALSE, TRUE)

\* IDBKeyRange.bound(lower, upper): both ends closed
KeyRangeBound(lower, upper) == KeyRange(lower, upper, FALSE, FALSE)

InKeyRange(key, range) ==
  /\ IF range.lowerOpen THEN KeyLess(range.lower, key) ELSE KeyLeq(range.lower, key)
  /\ IF range.upperOpen THEN KeyLess(key, range.upper) ELSE KeyLeq(key, range.upper)

\* store.index('date').getAll(range): the records the index entries in the
\* range refer to, in index order
IDBIndexGetAll(store, range) ==
  LET hits == IndexOrder({e \in store.dateIndex : InKeyRange(e[1], range)})
  IN  Succeeded(store, [i \in DOMAIN hits |-> store.records[hits[i][2]]])

\* ------------------------------------------------------------------------
\* DatabaseManager (lib/database.ts): build "v1" is the version-1 schema
\* with add/put/delete written out per method, build "v2" the version-2
\* schema with the generic helpers and the tasks store
\* ------------------------------------------------------------------------

\* a field that holds a Date object of the given instant
JSDate(instant) == [time |-> instant]

\* a field that holds a string where the interface declares a Date
JSString(chars) == [string |-> chars]

\* an ActivityLog whose startTime and endTime are the Dates of two instants
ActivityLog(id, name, categoryId, startTime, endTime, date, energyLevel, duration, points) ==
  [id |-> id, name |-> name, categoryId |-> categoryId, startTime |-> JSDate(startTime),
   endTime |-> JSDate(endTime), date |-> date, energyLevel |-> energyLevel,
   duration |-> duration, points |-> points]

VitalityEntry(id, date, bonusId, completed) ==
  [id |-> id, date |-> date, bonusId |-> bonusId, completed |-> completed]

DailyTask(id, date, name, priority, completed) ==
  [id |-> id, date |-> date, name |-> name, priority |-> priority,
   completed |-> completed]

\* private version
Version == IF build = "v1" THEN 1 ELSE 2

\* the stores that onupgradeneeded creates with a 'date' index
DateIndexed ==
  IF build = "v1" THEN {"activities", "vitalityEntries", "goals"}
  ELSE {"activities", "vitalityEntries", "goals", "tasks"}

\* request.onupgradeneeded of build v1: creates the six stores
UpgradeV1 ==
  [n \in {"categories", "vitality", "activities", "vitalityEntries", "goals", "metrics"} |->
     ObjectStore(n \in DateIndexed)]

\* variant: the upgrade creates every store anew, as build v1's does
UpgradeV2_Recreates ==
  [n \in {"categories", "vitality", "activities", "vitalityEntries", "goals", "metrics",
          "tasks"} |->
     ObjectStore(n \in DateIndexed)]

\* request.onupgradeneeded of build v2: creates the stores that are missing
UpgradeV2 ==
  [n \in DOMAIN stores \cup
         {"categories", "vitality", "activities", "vitalityEntries", "goals", "metrics",
          "tasks"} |->
     IF n \in DOMAIN stores THEN stores[n] ELSE ObjectStore(n \in DateIndexed)]

NoKey == ""

\* whether the store holds a record with the key
Has(storeName, key) ==
  IF storeName \in DOMAIN stores THEN key \in DOMAIN stores[storeName].records
  ELSE FALSE

\* a settled call: the method, the primary key it was about, whether a record
\* had that key when it ran, and what the promise settled to
Call(op, key, existed, r) ==
  [op |-> op, key |-> key, existed |-> existed, outcome |-> r.outcome,
   error |-> r.error, value |-> r.value]

\* init(): indexedDB.open(dbName, version); a database of a higher version
\* is a VersionError, one of a lower version (or none) is upgraded first (the
\* call records whether a database of a lower version was there)
init ==
  IF diskVersion > Version
  THEN /\ lastCall' = Call("init", NoKey, FALSE, Failed(<< >>, "VersionError"))
       /\ UNCHANGED << build, db, diskVersion, stores, viewVars >>
  ELSE /\ stores' = IF diskVersion = Version THEN stores
                    ELSE IF build = "v1" THEN UpgradeV1 ELSE UpgradeV2
       /\ diskVersion' = Version
       /\ db' = "open"
       /\ lastCall' = Call("init", NoKey, diskVersion # 0 /\ diskVersion < Version,
                           Succeeded(<< >>, << >>))
       /\ UNCHANGED << build, viewVars >>

\* the page is loaded anew with one of the builds: new DatabaseManager()
\* starts with db = null, the database on disk is what it was
reload(newBuild) ==
  /\ build' = newBuild
  /\ db' = "null"
  /\ lastCall' = Call("none", NoKey, FALSE, Succeeded(<< >>, << >>))
  /\ UNCHANGED << diskVersion, stores, viewVars >>

\* variant: without the check of db, this.db!.transaction throws a TypeError
RequestIn_NoDbCheck(objectStores, storeName, request, arg) ==
  IF db = "null" THEN Failed(<< >>, "TypeError")
  ELSE IF storeName \notin DOMAIN objectStores THEN Failed(<< >>, "NotFoundError")
  ELSE LET store == objectStores[storeName]
       IN  CASE request = "add" -> IDBAdd(store, arg)
             [] request = "put" -> IDBPut(store, arg)
             [] request = "delete" -> IDBDelete(store, arg)
             [] request = "count" -> IDBCount(store)
             [] request = "getAll" -> IDBGetAll(store)
             [] request = "index.getAll" ->
                  IF store.hasDateIndex THEN IDBIndexGetAll(store, arg)
                  ELSE Failed(store, "NotFoundError")

\* one promise around one request on one store:
\*   if (!this.db) throw ...; transaction([storeName], mode)
\*   .objectStore(storeName).<request>(arg), resolved by onsuccess and
\*   rejected by onerror or by an exception of the executor
RequestIn(objectStores, storeName, request, arg) ==
  IF db = "null" THEN Failed(<< >>, "NotInitialized")
  ELSE IF storeName \notin DOMAIN objectStores THEN Failed(<< >>, "NotFoundError")
  ELSE LET store == objectStores[storeName]
       IN  CASE request = "add" -> IDBAdd(store, arg)
             [] request = "put" -> IDBPut(store, arg)
             [] request = "delete" -> IDBDelete(store, arg)
             [] request = "count" -> IDBCount(store)
             [] request = "getAll" -> IDBGetAll(store)
             [] request = "index.getAll" ->
                  IF store.hasDateIndex THEN IDBIndexGetAll(store, arg)
                  ELSE Failed(store, "NotFoundError")

\* the request on the object stores as they are
Request(storeName, request, arg) == RequestIn(stores, storeName, request, arg)

\* the promise settles: the caller sees the outcome, a resolved request's
\* effect on the store is committed
Settle(op, key, storeName, r) ==
  /\ lastCall' = Call(op, key, Has(storeName, key), r)
  /\ stores' = IF r.outcome = "resolved"
               THEN [stores EXCEPT ![storeName] = r.store] ELSE stores
  /\ UNCHANGED << build, db, diskVersion, viewVars >>

\* build v2 helpers
getFromStore(op, storeName) ==
  Settle(op, NoKey, storeName, Request(storeName, "getAll", << >>))

writeToStore(op, storeName, data) ==
  Settle(op, data.id, storeName, Request(storeName, "put", data))

getByDate(op, storeName, date) ==
  Settle(op, NoKey, storeName, Request(storeName, "index.getAll", KeyRangeOnly(date)))

deleteFromStore(op, storeName, id) ==
  Settle(op, id, storeName, Request(storeName, "delete", id))

\* Category methods
getCategories ==
  IF build = "v1"
  THEN Settle("getCategories", NoKey, "categories", Request("categories", "getAll", << >>))
  ELSE getFromStore("getCategories", "categories")

addCategory(category) ==
  IF build = "v1"
  THEN Settle("addCategory", category.id, "categories",
              Request("categories", "add", category))
  ELSE writeToStore("addCategory", "categories", category)

\* Vitality methods
getVitalityBonuses ==
  IF build = "v1"
  THEN Settle("getVitalityBonuses", NoKey, "vitality", Request("vitality", "getAll", << >>))
  ELSE getFromStore("getVitalityBonuses", "vitality")

addVitalityBonus(bonus) ==
  IF build = "v1"
  THEN Settle("addVitalityBonus", bonus.id, "vitality", Request("vitality", "add", bonus))
  ELSE writeToStore("addVitalityBonus", "vitality", bonus)

\* Activity methods
addActivity(activity) ==
  IF build = "v1"
  THEN Settle("addActivity", activity.id, "activities",
              Request("activities", "add", activity))
  ELSE writeToStore("addActivity", "activities", activity)

getActivitiesByDate(date) ==
  IF build = "v1"
  THEN Settle("getActivitiesByDate", NoKey, "activities",
              Request("activities", "index.getAll", KeyRangeOnly(date)))
  ELSE getByDate("getActivitiesByDate", "activities", date)

\* updateActivity that reports an absent id as an error
updateActivity_ChecksPresence(activity) ==
  Settle("updateActivity", activity.id, "activities",
         IF Has("activities", activity.id) \/ db = "null"
         THEN Request("activities", "put", activity)
         ELSE Failed(<< >>, "NotFound"))

\* updateActivity written with store.add
updateActivity_UsesAdd(activity) ==
  Settle("updateActivity", activity.id, "activities",
         Request("activities", "add", activity))

updateActivity(activity) ==
  IF build = "v1"
  THEN Settle("updateActivity", activity.id, "activities",
              Request("activities", "put", activity))
  ELSE writeToStore("updateActivity", "activities", activity)

deleteActivity(id) ==
  IF build = "v1"
  THEN Settle("deleteActivity", id, "activities", Request("activities", "delete", id))
  ELSE deleteFromStore("deleteActivity", "activities", id)

\* Vitality entry methods
addVitalityEntry(entry) ==
  IF build = "v1"
  THEN Settle("addVitalityEntry", entry.id, "vitalityEntries",
              Request("vitalityEntries", "add", entry))
  ELSE writeToStore("addVitalityEntry", "vitalityEntries", entry)

getVitalityEntriesByDate(date) ==
  IF build = "v1"
  THEN Settle("getVitalityEntriesByDate", NoKey, "vitalityEntries",
              Request("vitalityEntries", "index.getAll", KeyRangeOnly(date)))
  ELSE getByDate("getVitalityEntriesByDate", "vitalityEntries", date)

updateVitalityEntry(entry) ==
  IF build = "v1"
  THEN Settle("updateVitalityEntry", entry.id, "vitalityEntries",
              Request("vitalityEntries", "put", entry))
  ELSE writeToStore("updateVitalityEntry", "vitalityEntries", entry)

\* a range request: IDBKeyRange.bound throws a DataError in the executor
\* when lower > upper, which rejects the promise
RangeRequest(storeName, startDate, endDate) ==
  IF db = "null" THEN Failed(<< >>, "NotInitialized")
  ELSE IF KeyLess(endDate, startDate) /\ storeName \in DOMAIN stores
            /\ stores[storeName].hasDateIndex
  THEN Failed(<< >>, "DataError")
  ELSE Request(storeName, "index.getAll", KeyRangeBound(startDate, endDate))

\* range methods (build v1 only)
getActivitiesInRange(startDate, endDate) ==
  /\ build = "v1"
  /\ Settle("getActivitiesInRange", NoKey, "activities",
            RangeRequest("activities", startDate, endDate))

getVitalityEntriesInRange(startDate, endDate) ==
  /\ build = "v1"
  /\ Settle("getVitalityEntriesInRange", NoKey, "vitalityEntries",
            RangeRequest("vitalityEntries", startDate, endDate))

\* getAllActivitiesForAnalytics() (build v1 only): getAllActivities()
getAllActivitiesForAnalytics ==
  /\ build = "v1"
  /\ Settle("getAllActivitiesForAnalytics", NoKey, "activities",
            Request("activities", "getAll", << >>))

\* Task methods (build v2 only)
addTask(task) ==
  /\ build = "v2"
  /\ writeToStore("addTask", "tasks", task)

updateTask(task) ==
  /\ build = "v2"
  /\ writeToStore("updateTask", "tasks", task)

getTasksByDate(date) ==
  /\ build = "v2"
  /\ getByDate("getTasksByDate", "tasks", date)

deleteTask(id) ==
  /\ build = "v2"
  /\ deleteFromStore("deleteTask", "tasks", id)

\* the for loop of initializeDefaultData that stops one record early
RECURSIVE SeedFrom_StopsEarly(_, _, _)
SeedFrom_StopsEarly(r, defaults, i) ==
  IF i >= Len(defaults) \/ r.outcome = "rejected" THEN r
  ELSE SeedFrom_StopsEarly(IF build = "v1" THEN IDBAdd(r.store, defaults[i])
                           ELSE IDBPut(r.store, defaults[i]),
                           defaults, i + 1)

\* for (const record of defaults) await this.add...(record), from the i-th
\* record on: each add is a transaction of its own, the first rejected one
\* ends the loop and what was added before it stays
RECURSIVE SeedFrom(_, _, _)
SeedFrom(r, defaults, i) ==
  IF i > Len(defaults) \/ r.outcome = "rejected" THEN r
  ELSE SeedFrom(IF build = "v1" THEN IDBAdd(r.store, defaults[i])
                ELSE IDBPut(r.store, defaults[i]),
                defaults, i + 1)

\* one half of initializeDefaultData: getCount(storeName), and the defaults
\* added when the count is 0
SeedStore(objectStores, storeName, defaults) ==
  LET count == RequestIn(objectStores, storeName, "count", NoKey)
  IN  IF count.outcome = "rejected" THEN count
      ELSE IF count.value = 0
      THEN SeedFrom(Succeeded(objectStores[storeName], << >>), defaults, 1)
      ELSE Succeeded(objectStores[storeName], << >>)

\* initializeDefaultData(): categories first, then vitality bonuses; the
\* call records whether the categories had been there
initializeDefaultData ==
  IF db = "null"
  THEN /\ lastCall' = Call("initializeDefaultData", NoKey, FALSE,
                           Failed(<< >>, "NotInitialized"))
       /\ UNCHANGED << build, db, diskVersion, stores, viewVars >>
  ELSE \E categories \in {SeedStore(stores, "categories", defaultCategories)} :
         LET seeded == IF "categories" \in DOMAIN stores
                       THEN [stores EXCEPT !["categories"] = categories.store]
                       ELSE stores
         IN  \E vitality \in {IF categories.outcome = "rejected" THEN categories
                              ELSE SeedStore(seeded, "vitality", defaultVitalityBonuses)} :
               /\ stores' = IF categories.outcome = "resolved" /\ "vitality" \in DOMAIN stores
                            THEN [seeded EXCEPT !["vitality"] = vitality.store]
                            ELSE seeded
               /\ lastCall' = Call("initializeDefaultData", NoKey,
                                   stores["categories"].records # << >>, vitality)
               /\ UNCHANGED << build, db, diskVersion, viewVars >>

\* Date.prototype.toISOString(): YYYY-MM-DDTHH:mm:ss.sssZ of the instant
toISOString(date) ==
  getDateString(date) \o << 84 >> \o PadStart((date % 1440) \div 60, 2) \o << 58 >>
    \o PadStart(date % 60, 2) \o << 58, 48, 48, 46, 48, 48, 48, 90 >>

\* what JSON.stringify writes for a record, as JSON.parse reads it back: a
\* field that holds a Date is the string of its toISOString(), every other
\* field (a string among them) itself
ToJSON(record) ==
  [f \in DOMAIN record |->
     IF f \in {"startTime", "endTime"} /\ DOMAIN record[f] = {"time"}
     THEN JSString(toISOString(record[f].time)) ELSE record[f]]

JSONArray(records) == [i \in DOMAIN records |-> ToJSON(records[i])]

\* exportData() at the instant now: the four getAll reads and the export
\* date, as the JSON text the promise resolves with
ExportResult(now) ==
     LET categories == Request("categories", "getAll", NoKey)
         vitality == Request("vitality", "getAll", NoKey)
         activities == Request("activities", "getAll", NoKey)
         vitalityEntries == Request("vitalityEntries", "getAll", NoKey)
         data == [categories |-> JSONArray(categories.value),
                  vitality |-> JSONArray(vitality.value),
                  activities |-> JSONArray(activities.value),
                  vitalityEntries |-> JSONArray(vitalityEntries.value),
                  exportDate |-> toISOString(now)]
     IN  IF categories.outcome = "rejected" THEN categories
         ELSE Succeeded(categories.store, data)

\* exportData() (build v1 only)
exportData(now) ==
  /\ build = "v1"
  /\ Settle("exportData", NoKey, "categories", ExportResult(now))

\* IDBObjectStore.clear()
IDBClear(store) == [store EXCEPT !.records = << >>, !.dateIndex = {}]

\* the object stores clearAllData clears
ClearedStores == {"activities", "vitalityEntries", "goals", "metrics"}

\* clearAllData() (build v1 only): one transaction over the four stores, a
\* clear() on each, resolved when all four have succeeded
clearAllData ==
  /\ build = "v1"
  /\ lastCall' = Call("clearAllData", NoKey, FALSE,
                      IF db = "null" THEN Failed(<< >>, "NotInitialized")
                      ELSE IF ~(ClearedStores \subseteq DOMAIN stores)
                      THEN Failed(<< >>, "NotFoundError")
                      ELSE Succeeded(<< >>, << >>))
  /\ stores' = IF db = "open" /\ ClearedStores \subseteq DOMAIN stores
               THEN [n \in DOMAIN stores |->
                       IF n \in ClearedStores THEN IDBClear(stores[n]) ELSE stores[n]]
               ELSE stores
  /\ UNCHANGED << build, db, diskVersion, viewVars >>

\* importAll(snapshot) on the given object stores: every record of every
\* collection of the snapshot that has a store of its name is put there
RECURSIVE PutAll(_, _, _)
PutAll(store, records, i) ==
  IF i > Len(records) THEN store
  ELSE PutAll(IDBPut(store, records[i]).store, records, i + 1)

ImportInto(objectStores, snapshot) ==
  [n \in DOMAIN objectStores |->
     IF n \in DOMAIN snapshot THEN PutAll(objectStores[n], snapshot[n], 1)
     ELSE objectStores[n]]

\* the DatabaseManager after construction, no database on disk
StoreIdle ==
  /\ build = "v1"
  /\ db = "null"
  /\ diskVersion = 0
  /\ stores = << >>
  /\ lastCall = Call("none", NoKey, FALSE, Succeeded(<< >>, << >>))

\* ------------------------------------------------------------------------
\* Inputs of the metrics engine
\* ------------------------------------------------------------------------

EnergyLevels == {"High", "Medium", "Low"}

\* durations in minutes (ActivityLog.duration, "in minutes")
MetricDurations == {60, 120}

\* category ids used by logged activities; "archived" is in no category list
MetricCategoryIds == {"deep-work", "learning", "distraction"}

DanglingCategoryId == "archived"

\* points of an activity of a category: category.points * (duration / 60),
\* in sixtieths of a point
PointsFor(categoryId, duration) ==
  MapById(defaultCategories)[categoryId].points * duration

MetricActivity(categoryId, duration, points, energyLevel) ==
  [categoryId |-> categoryId, duration |-> duration, points |-> points,
   energyLevel |-> energyLevel]

MetricActivities ==
  { MetricActivity(c, d, PointsFor(c, d), e) :
      c \in MetricCategoryIds, d \in MetricDurations, e \in EnergyLevels }
  \cup
  { MetricActivity(DanglingCategoryId, 60, p, "High") : p \in {-60, 180} }

MetricBonusIds == {"sleep", "meditation"}

DanglingBonusId == "retired"

MetricEntry(bonusId, completed) == [bonusId |-> bonusId, completed |-> completed]

MetricEntries ==
  { MetricEntry(b, c) : b \in MetricBonusIds \cup {DanglingBonusId}, c \in BOOLEAN }

\* DailyMetrics of the Dashboard before the first call
InitialMetrics ==
  [totalScore |-> 0, focusRatio |-> RatZero, distractionRatio |-> RatZero,
   productivityThroughput |-> RatZero, totalTimeLogged |-> 0,
   energyFocusCorrelation |-> [high |-> 0, medium |-> 0, low |-> 0]]

\* ------------------------------------------------------------------------
\* The metrics engine applied to a growing day
\* ------------------------------------------------------------------------

\* MonthlyOverview as it mounts: useState(new Date()), a day of February
\* 2024, no day loaded, not loading; loads are its loadMonthData calls
\* whose range queries are still in flight
MonthlyOverviewState ==
  [currentMonth |-> 2, monthData |-> << >>, loading |-> FALSE, loads |-> << >>]

\* ActivityLogForm as it mounts: empty fields (a time field is the string
\* of its characters), energy Medium, no activity being edited, no toast
ActivityLogFormState ==
  [name |-> "", categoryId |-> "", startTime |-> << >>, endTime |-> << >>,
   energyLevel |-> "Medium", editingActivity |-> << >>, toast |-> "none"]

\* Tasks as it mounts: useState([]), and none of its handlers awaiting a
\* write
TasksState == [tasks |-> << >>, calls |-> << >>]

MetricsIdle ==
  /\ dayActivities = << >>
  /\ dayVitalityEntries = << >>
  /\ metrics = InitialMetrics
  /\ prevMetrics = InitialMetrics
  /\ lastAdded = "none"
  /\ goalProgress = << >>
  /\ energyFocusData = << >>
  /\ dailyGoals = << >>
  /\ toggles = << >>
  /\ trendData = << >>
  /\ categoryTimeData = << >>
  /\ dayCell = DayCell(0)
  /\ mounted = [page |-> "none", pc |-> "done"]
  /\ timezone = 0
  /\ calendar = MonthlyOverviewState
  /\ form = ActivityLogFormState
  /\ tasksPage = TasksState
  /\ seeds = << >>

MetricsInit == MetricsIdle /\ StoreIdle

\* the day's metrics are computed again with one more activity in the array
CalcWithActivity(a) ==
  /\ Len(dayActivities) + Len(dayVitalityEntries) < MaxDayRecords
  /\ dayActivities' = Append(dayActivities, a)
  /\ metrics' = calculateDailyMetrics(dayActivities', defaultCategories,
                                      dayVitalityEntries, defaultVitalityBonuses)
  /\ prevMetrics' = metrics
  /\ lastAdded' = "activity"
  /\ UNCHANGED << dayVitalityEntries, storeVars, pageVars >>

\* the day's metrics are computed again with one more vitality entry
CalcWithEntry(e) ==
  /\ Len(dayActivities) + Len(dayVitalityEntries) < MaxDayRecords
  /\ dayVitalityEntries' = Append(dayVitalityEntries, e)
  /\ metrics' = calculateDailyMetrics(dayActivities, defaultCategories,
                                      dayVitalityEntries', defaultVitalityBonuses)
  /\ prevMetrics' = metrics
  /\ lastAdded' = "entry"
  /\ UNCHANGED << dayActivities, storeVars, pageVars >>

MetricsNext ==
  \/ \E a \in MetricActivities : CalcWithActivity(a) /\ UNCHANGED shellVars
  \/ \E e \in MetricEntries : CalcWithEntry(e) /\ UNCHANGED shellVars

SpecMetrics == MetricsInit /\ [][MetricsNext]_vars

\* ------------------------------------------------------------------------
\* The store driven through its public methods
\* ------------------------------------------------------------------------

\* the record ids in use
Ids == {KeyOrder[KeyRank("id-1") + i] : i \in 0 .. MaxIds - 1}

\* the days (from 2024-01-01) records are dated: Jan 31, Feb 1, Feb 2
StoreDays == {30, 31, 32}

Midnight(day) == day * 1440

StoreDates == {getDateString(Midnight(d)) : d \in StoreDays}

StoreActivities ==
  { ActivityLog(id, "Write report", "deep-work", Midnight(d) + 540, Midnight(d) + 600,
                getDateString(Midnight(d)), "High", 60, 180) :
      id \in Ids, d \in StoreDays }

StoreEntries ==
  { VitalityEntry(id, getDateString(Midnight(d)), "sleep", c) :
      id \in Ids, d \in {30, 31}, c \in BOOLEAN }

StoreTasks ==
  { DailyTask(id, getDateString(Midnight(30)), "Plan the week", "High", c) :
      id \in Ids, c \in BOOLEAN }

StoreCategories == {defaultCategories[1], defaultCategories[6]}

StoreBonuses == {defaultVitalityBonuses[1], defaultVitalityBonuses[3]}

RECURSIVE RecordCount(_)
RecordCount(names) ==
  IF names = {} THEN 0
  ELSE LET n == CHOOSE m \in names : TRUE
       IN  Cardinality(DOMAIN stores[n].records) + RecordCount(names \ {n})

\* the write keeps the database within MaxRecords records
Fits(storeName, id) ==
  IF storeName \notin DOMAIN stores THEN TRUE
  ELSE IF id \in DOMAIN stores[storeName].records THEN TRUE
  ELSE RecordCount(DOMAIN stores) < MaxRecords

StoreInit ==
  /\ MetricsIdle
  /\ build \in {"v1", "v2"}
  /\ db = "null"
  /\ diskVersion = 0
  /\ stores = << >>
  /\ lastCall = Call("none", NoKey, FALSE, Succeeded(<< >>, << >>))

\* the write path of every collection
StoreNext ==
  \/ init /\ UNCHANGED shellVars
  \/ \E c \in StoreCategories : Fits("categories", c.id) /\ addCategory(c)
    /\ UNCHANGED shellVars
  \/ \E b \in StoreBonuses : Fits("vitality", b.id) /\ addVitalityBonus(b)
    /\ UNCHANGED shellVars
  \/ \E a \in StoreActivities : Fits("activities", a.id) /\ addActivity(a)
    /\ UNCHANGED shellVars
  \/ \E a \in StoreActivities : Fits("activities", a.id) /\ updateActivity(a)
    /\ UNCHANGED shellVars
  \/ \E id \in Ids : deleteActivity(id) /\ UNCHANGED shellVars
  \/ \E e \in StoreEntries : Fits("vitalityEntries", e.id) /\ addVitalityEntry(e)
    /\ UNCHANGED shellVars
  \/ \E e \in StoreEntries : Fits("vitalityEntries", e.id) /\ updateVitalityEntry(e)
    /\ UNCHANGED shellVars
  \/ \E t \in StoreTasks : Fits("tasks", t.id) /\ addTask(t) /\ UNCHANGED shellVars
  \/ \E t \in StoreTasks : Fits("tasks", t.id) /\ updateTask(t) /\ UNCHANGED shellVars
  \/ \E id \in Ids : deleteTask(id) /\ UNCHANGED shellVars

SpecStore == StoreInit /\ [][StoreNext]_vars

\* the dated collections with their queries
QueryNext ==
  \/ init /\ UNCHANGED shellVars
  \/ getCategories /\ UNCHANGED shellVars
  \/ getVitalityBonuses /\ UNCHANGED shellVars
  \/ \E a \in StoreActivities : Fits("activities", a.id) /\ addActivity(a)
    /\ UNCHANGED shellVars
  \/ \E a \in StoreActivities : Fits("activities", a.id) /\ updateActivity(a)
    /\ UNCHANGED shellVars
  \/ \E id \in Ids : deleteActivity(id) /\ UNCHANGED shellVars
  \/ \E e \in StoreEntries : Fits("vitalityEntries", e.id) /\ addVitalityEntry(e)
    /\ UNCHANGED shellVars
  \/ \E e \in StoreEntries : Fits("vitalityEntries", e.id) /\ updateVitalityEntry(e)
    /\ UNCHANGED shellVars
  \/ \E d \in StoreDates : getActivitiesByDate(d) /\ UNCHANGED shellVars
  \/ \E d \in StoreDates : getVitalityEntriesByDate(d) /\ UNCHANGED shellVars
  \/ \E d \in StoreDates : getTasksByDate(d) /\ UNCHANGED shellVars
  \/ \E s, e \in StoreDates : getActivitiesInRange(s, e) /\ UNCHANGED shellVars
  \/ \E s, e \in StoreDates : getVitalityEntriesInRange(s, e) /\ UNCHANGED shellVars

SpecQuery == StoreInit /\ [][QueryNext]_vars


\* the write keeps the collections the user fills within MaxRecords records
FitsUserData(storeName, id) ==
  IF storeName \notin DOMAIN stores THEN TRUE
  ELSE IF id \in DOMAIN stores[storeName].records THEN TRUE
  ELSE RecordCount(DOMAIN stores \ {"categories", "vitality"}) < MaxRecords

\* seeding among the reads of the reference data and the writes of the day
SeedNext ==
  \/ init /\ UNCHANGED shellVars
  \/ initializeDefaultData /\ UNCHANGED shellVars
  \/ getCategories /\ UNCHANGED shellVars
  \/ getVitalityBonuses /\ UNCHANGED shellVars
  \/ \E a \in StoreActivities : FitsUserData("activities", a.id) /\ addActivity(a)
    /\ UNCHANGED shellVars
  \/ \E id \in Ids : deleteActivity(id) /\ UNCHANGED shellVars
  \/ \E e \in StoreEntries : FitsUserData("vitalityEntries", e.id) /\ updateVitalityEntry(e)
    /\ UNCHANGED shellVars

SpecSeed == StoreInit /\ [][SeedNext]_vars

\* ------------------------------------------------------------------------
\* The pages: an activity from the form to the store and to the figures
\* ------------------------------------------------------------------------

MsPerMinute == 60000

MsPerHour == 1000 * 60 * 60

TrendDays == 30

\* end.getTime() - start.getTime(): the milliseconds from start to end
MsBetween(start, end) == (end - start) * MsPerMinute

\* the day the pages show, Feb 1, and the day after
UnitDay == 31

UnitToday == Midnight(UnitDay + 1) + 600

UnitCategoryIds == {"deep-work", "distraction"}

\* the form's start and end times, in minutes of the day: 09:00, 09:30, 10:00
UnitStartTime == 540

UnitEndTimes == {570, 600}

UnitEnergyLevels == {"High", "Low"}

\* Dashboard.loadDayData up to setMetrics, on the object stores it finds:
\* both by-date queries and the metrics of what they returned
LoadedDay(objectStores, dateString) ==
  LET activitiesData ==
        RequestIn(objectStores, "activities", "index.getAll", KeyRangeOnly(dateString))
      vitalityData ==
        RequestIn(objectStores, "vitalityEntries", "index.getAll",
                  KeyRangeOnly(dateString))
  IN  [ok |-> activitiesData.outcome = "resolved" /\ vitalityData.outcome = "resolved",
       activities |-> activitiesData.value,
       vitalityEntries |-> vitalityData.value,
       lastRequest |-> vitalityData,
       metrics |-> calculateDailyMetrics(activitiesData.value, defaultCategories,
                                         vitalityData.value, defaultVitalityBonuses)]

\* the setState calls of loadDayData; a rejected query is caught and shows
\* nothing new
SetDay(loaded) ==
  /\ lastCall' = Call("getVitalityEntriesByDate", NoKey, FALSE, loaded.lastRequest)
  /\ IF loaded.ok
     THEN /\ dayActivities' = loaded.activities
          /\ dayVitalityEntries' = loaded.vitalityEntries
          /\ metrics' = loaded.metrics
          /\ prevMetrics' = metrics
     ELSE UNCHANGED << dayActivities, dayVitalityEntries, metrics, prevMetrics >>
  /\ UNCHANGED lastAdded

ShowDay(loaded) ==
  /\ SetDay(loaded)
  /\ UNCHANGED pageVars

loadDayData(selectedDay) ==
  /\ ShowDay(LoadedDay(stores, getDateString(Midnight(selectedDay))))
  /\ UNCHANGED << build, db, diskVersion, stores >>

\* Dashboard.handleActivityLogged: await db.addActivity(activity), then
\* await loadDayData(); a rejected addActivity is caught by the form
handleActivityLogged(activity, selectedDay) ==
  LET added == Request("activities", IF build = "v1" THEN "add" ELSE "put", activity)
  IN  IF added.outcome = "rejected"
      THEN /\ lastCall' = Call("addActivity", activity.id,
                               Has("activities", activity.id), added)
           /\ UNCHANGED << build, db, diskVersion, stores, viewVars >>
      ELSE /\ stores' = [stores EXCEPT !["activities"] = added.store]
           /\ UNCHANGED << build, db, diskVersion >>
           /\ ShowDay(LoadedDay([stores EXCEPT !["activities"] = added.store],
                                getDateString(Midnight(selectedDay))))

\* the frame of a step of handleVitalityToggle
ToggleFrame == UNCHANGED << goalProgress, energyFocusData, dailyGoals, trendData,
                            categoryTimeData, dayCell >>

\* vitalityEntries.find(entry => entry.bonusId === bonusId && entry.date ===
\* dateString) on the entries the page shows: the positions that match
FoundEntries(bonusId, dateString) ==
  {i \in DOMAIN dayVitalityEntries :
     /\ dayVitalityEntries[i].bonusId = bonusId
     /\ dayVitalityEntries[i].date = dateString}

\* the write handleVitalityToggle chooses: updateVitalityEntry of the entry
\* found with completed replaced, or addVitalityEntry of a new entry whose
\* id is crypto.randomUUID()
ToggleWrite(bonusId, completed, dateString, uuid) ==
  LET found == FoundEntries(bonusId, dateString)
      existingEntry == dayVitalityEntries[CHOOSE i \in found : \A j \in found : i <= j]
  IN  IF found # {}
      THEN [pc |-> "write", op |-> "updateVitalityEntry",
            entry |-> [existingEntry EXCEPT !.completed = completed]]
      ELSE [pc |-> "write", op |-> "addVitalityEntry",
            entry |-> VitalityEntry(uuid, dateString, bonusId, completed)]

\* handleVitalityToggle(bonusId, completed) up to its first await: the
\* request of the write is queued; uuid is an id no entry has; the page
\* shows the checklist once initializeData() has opened the database
handleVitalityToggle(bonusId, completed, selectedDay, uuid) ==
  /\ db = "open"
  /\ ~Has("vitalityEntries", uuid)
  /\ \A i \in DOMAIN toggles : toggles[i].pc = "write" => toggles[i].entry.id # uuid
  /\ toggles' = Append(toggles, ToggleWrite(bonusId, completed,
                                           getDateString(Midnight(selectedDay)), uuid))
  /\ ToggleFrame
  /\ UNCHANGED << metricVars, storeVars >>

\* the request a queued write makes of the vitalityEntries store
ToggleRequest(toggle) ==
  IF toggle.op = "addVitalityEntry" /\ build = "v1" THEN "add" ELSE "put"

RECURSIVE AfterQueuedWrites(_, _)
\* the object stores once the queued writes from position i on have run, in
\* the order they were queued
AfterQueuedWrites(objectStores, i) ==
  IF i > Len(toggles) THEN objectStores
  ELSE IF toggles[i].pc # "write" THEN AfterQueuedWrites(objectStores, i + 1)
  ELSE LET r == RequestIn(objectStores, "vitalityEntries", ToggleRequest(toggles[i]),
                          toggles[i].entry)
       IN  AfterQueuedWrites(IF r.outcome = "resolved"
                             THEN [objectStores EXCEPT !["vitalityEntries"] = r.store]
                             ELSE objectStores, i + 1)

\* without position i
Without(seq, i) == SubSeq(seq, 1, i - 1) \o SubSeq(seq, i + 1, Len(seq))

\* the oldest queued write settles (transactions on one store run in the
\* order they were made); resolved, the handler goes on to loadDayData(),
\* whose reads come after every write queued by then; rejected, the handler
\* reports the error and ends
toggleWriteSettles(selectedDay) ==
  \E i \in DOMAIN toggles :
    /\ toggles[i].pc = "write"
    /\ \A j \in 1 .. i - 1 : toggles[j].pc # "write"
    /\ \E r \in {Request("vitalityEntries", ToggleRequest(toggles[i]), toggles[i].entry)} :
         /\ lastCall' = Call(toggles[i].op, toggles[i].entry.id,
                             Has("vitalityEntries", toggles[i].entry.id), r)
         /\ IF r.outcome = "rejected"
            THEN /\ toggles' = Without(toggles, i)
                 /\ UNCHANGED stores
            ELSE \E written \in {[stores EXCEPT !["vitalityEntries"] = r.store]} :
                   /\ stores' = written
                   /\ toggles' =
                        [toggles EXCEPT ![i] =
                           [pc |-> "reload",
                            loaded |-> LoadedDay(AfterQueuedWrites(written, i + 1),
                                                 getDateString(Midnight(selectedDay)))]]
    /\ ToggleFrame
    /\ UNCHANGED << build, db, diskVersion, metricVars >>

\* the reads of a handler's loadDayData() settle and the page shows them
toggleReloadSettles ==
  \E i \in DOMAIN toggles :
    /\ toggles[i].pc = "reload"
    /\ SetDay(toggles[i].loaded)
    /\ toggles' = Without(toggles, i)
    /\ ToggleFrame
    /\ UNCHANGED << build, db, diskVersion, stores >>

\* ActivityLogForm.handleSubmit for a new activity of a listed category
handleSubmit(id, categoryId, selectedDay, startTime, endTime, energyLevel) ==
  LET category == MapById(defaultCategories)[categoryId]
      start == Midnight(selectedDay) + startTime
      end == Midnight(selectedDay) + endTime
      duration == MsBetween(start, end)
      points == (duration * category.points * PointScale) \div MsPerHour
      activity == ActivityLog(id, "Write report", categoryId, start, end,
                              getDateString(Midnight(selectedDay)), energyLevel,
                              duration, points)
  IN  /\ end > start
      /\ handleActivityLogged(activity, selectedDay)

\* Dashboard.handleActivityUpdated: await db.updateActivity(activity), then
\* await loadDayData(); a rejected updateActivity is caught by the form
handleActivityUpdated(activity, selectedDay) ==
  LET put == Request("activities", "put", activity)
  IN  IF put.outcome = "rejected"
      THEN /\ lastCall' = Call("updateActivity", activity.id,
                               Has("activities", activity.id), put)
           /\ UNCHANGED << build, db, diskVersion, stores, viewVars >>
      ELSE /\ stores' = [stores EXCEPT !["activities"] = put.store]
           /\ UNCHANGED << build, db, diskVersion >>
           /\ ShowDay(LoadedDay([stores EXCEPT !["activities"] = put.store],
                                getDateString(Midnight(selectedDay))))

\* the value of an <input type="time"> for a minute of the day: "HH:MM"
TimeValue(minutes) == PadStart(minutes \div 60, 2) \o << 58 >> \o PadStart(minutes % 60, 2)

\* timeString.split(':').map(Number) of such a value: << hours, minutes >>
SplitTime(timeString) ==
  << (timeString[1] - 48) * 10 + (timeString[2] - 48),
     (timeString[4] - 48) * 10 + (timeString[5] - 48) >>

\* new Date(selectedDate) with setHours(hour, minute, 0, 0)
SetHours(selectedDay, hm) == Midnight(selectedDay) + hm[1] * 60 + hm[2]

\* date.toTimeString().slice(0, 5)
toTimeString(date) == TimeValue(date % 1440)

\* variant: the activity always gets a fresh id
FormActivity_AlwaysNewId(fields, uuid, selectedDay) ==
  LET category == MapById(defaultCategories)[fields.categoryId]
      start == SetHours(selectedDay, SplitTime(fields.startTime))
      end == SetHours(selectedDay, SplitTime(fields.endTime))
      duration == MsBetween(start, end)
  IN  ActivityLog(uuid, fields.name, fields.categoryId, start, end,
                  getDateString(Midnight(selectedDay)), fields.energyLevel, duration,
                  (duration * category.points * PointScale) \div MsPerHour)

\* the ActivityLog handleSubmit builds from the fields: the id of the
\* activity being edited or a new one, the times on the selected day, the
\* duration in milliseconds and the points of the category for its hours
FormActivity(fields, uuid, selectedDay) ==
  LET category == MapById(defaultCategories)[fields.categoryId]
      start == SetHours(selectedDay, SplitTime(fields.startTime))
      end == SetHours(selectedDay, SplitTime(fields.endTime))
      duration == MsBetween(start, end)
  IN  ActivityLog(IF fields.editingActivity # << >> THEN fields.editingActivity[1].id
                  ELSE uuid,
                  fields.name, fields.categoryId, start, end,
                  getDateString(Midnight(selectedDay)), fields.energyLevel, duration,
                  (duration * category.points * PointScale) \div MsPerHour)

\* the fields are typed and chosen: setName, setCategoryId, setStartTime,
\* setEndTime, setEnergyLevel
typeFields(name, categoryId, startTime, endTime, energyLevel) ==
  /\ form' = [form EXCEPT !.name = name, !.categoryId = categoryId,
                          !.startTime = startTime, !.endTime = endTime,
                          !.energyLevel = energyLevel]
  /\ UNCHANGED << storeVars, viewVars, mounted, timezone, calendar, tasksPage, seeds >>

\* startEdit(activity) of an activity of the day's list
startEdit(activity) ==
  /\ form' = [form EXCEPT !.editingActivity = << activity >>,
                          !.name = activity.name,
                          !.categoryId = activity.categoryId,
                          !.startTime = toTimeString(activity.startTime.time),
                          !.endTime = toTimeString(activity.endTime.time),
                          !.energyLevel = activity.energyLevel]
  /\ UNCHANGED << storeVars, viewVars, mounted, timezone, calendar, tasksPage, seeds >>

\* cancelEdit(): resetForm()
cancelEdit ==
  /\ form' = [ActivityLogFormState EXCEPT !.toast = form.toast]
  /\ UNCHANGED << storeVars, viewVars, mounted, timezone, calendar, tasksPage, seeds >>

\* a return of handleSubmit after toast({title, ...}): nothing else happens
Toasts(title) ==
  /\ form' = [form EXCEPT !.toast = title]
  /\ UNCHANGED << storeVars, viewVars >>

\* ActivityLogForm.handleSubmit, the whole handler: the checks of the
\* fields, of the category and of the times, then onActivityUpdated or
\* onActivityLogged, resetForm() when that resolved and the toast of the
\* catch when it was rejected
onSubmit(uuid, selectedDay) ==
  /\ IF form.name = "" \/ form.categoryId = "" \/ form.startTime = << >>
        \/ form.endTime = << >>
     THEN Toasts("Validation Error")
     ELSE IF \A k \in DOMAIN defaultCategories : defaultCategories[k].id # form.categoryId
     THEN Toasts("Error")
     ELSE \E activity \in {FormActivity(form, uuid, selectedDay)} :
            IF activity.endTime.time <= activity.startTime.time
            THEN Toasts("Validation Error")
            ELSE /\ IF form.editingActivity # << >>
                    THEN handleActivityUpdated(activity, selectedDay)
                    ELSE handleActivityLogged(activity, selectedDay)
                 /\ form' =
                      IF lastCall'.op \in {"addActivity", "updateActivity"}
                      THEN [form EXCEPT !.toast = "Error"]
                      ELSE [ActivityLogFormState EXCEPT
                              !.toast = IF form.editingActivity # << >>
                                        THEN "Activity Updated" ELSE "Activity Logged"]
  /\ UNCHANGED << mounted, timezone, calendar, tasksPage, seeds >>

RECURSIVE SumDuration(_, _)
\* activities.reduce((sum, activity) => sum + activity.duration, 0), from i on
SumDuration(activities, i) ==
  IF i > Len(activities) THEN 0
  ELSE activities[i].duration + SumDuration(activities, i + 1)

\* Math.min(a, b) of two quotients with positive denominators
RatMin(a, b) == IF RatLeq(a, b) THEN a ELSE b

DailyGoal(id, categoryId, targetMinutes, date) ==
  [id |-> id, categoryId |-> categoryId, targetMinutes |-> targetMinutes, date |-> date]

\* storedGoals.filter(goal => goal.date === dateString)
todaysGoals(storedGoals, dateString) ==
  SelectSeq(storedGoals, LAMBDA goal : goal.date = dateString)

\* NaN, as a quotient
NaN == Rat(0, 0)

\* Math.min((actualMinutes / targetMinutes) * 100, 100), actualMinutes
\* being total / 60000: a division by zero is Infinity, or NaN when total
\* is zero too, and Math.min of NaN is NaN; the quotient by a negative
\* target is kept with a positive denominator
ProgressPercentage(total, targetMinutes) ==
  IF targetMinutes > 0
  THEN RatMin(Rat(total * 100, MsPerMinute * targetMinutes), RatOfInt(100))
  ELSE IF targetMinutes < 0
  THEN RatMin(Rat(-(total * 100), MsPerMinute * (-targetMinutes)), RatOfInt(100))
  ELSE IF total = 0 THEN NaN
  ELSE RatOfInt(100)

\* the GoalProgress of one goal over the day's activities
ProgressOf(goal, activities) ==
  LET ofGoal == SelectSeq(activities, LAMBDA a : a.categoryId = goal.categoryId)
      total == SumDuration(ofGoal, 1)
  IN  [goal |-> goal,
       actualMinutes |-> Rat(total, MsPerMinute),
       progressPercentage |-> ProgressPercentage(total, goal.targetMinutes)]

\* DailyGoals.loadData up to setGoalProgress, on the goals it finds in
\* localStorage: a rejected query is caught and shows nothing new
LoadedGoals(storedGoals, selectedDay) ==
  LET dateString == getDateString(Midnight(selectedDay))
      categoriesData == Request("categories", "getAll", NoKey)
      activities == Request("activities", "index.getAll", KeyRangeOnly(dateString))
      goals == todaysGoals(storedGoals, dateString)
  IN  [ok |-> categoriesData.outcome = "resolved" /\ activities.outcome = "resolved",
       lastRequest |-> IF categoriesData.outcome = "resolved" THEN activities
                       ELSE categoriesData,
       progress |-> [i \in DOMAIN goals |-> ProgressOf(goals[i], activities.value)]]

ShowGoals(loaded) ==
  /\ lastCall' = Call(IF loaded.ok THEN "getActivitiesByDate" ELSE "getCategories",
                      NoKey, FALSE, loaded.lastRequest)
  /\ goalProgress' = IF loaded.ok THEN loaded.progress ELSE goalProgress
  /\ UNCHANGED << build, db, diskVersion, stores, metricVars, energyFocusData, toggles,
                  trendData, categoryTimeData, dayCell >>

\* DailyGoals.loadData for the selected day
loadData(selectedDay) ==
  /\ ShowGoals(LoadedGoals(dailyGoals, selectedDay))
  /\ UNCHANGED dailyGoals

\* saveGoals(updatedGoals): the goals of the other days, then the day's
\* goals, back into localStorage, and loadData()
saveGoals(updatedGoals, selectedDay) ==
  LET dateString == getDateString(Midnight(selectedDay))
      otherGoals == SelectSeq(dailyGoals, LAMBDA goal : goal.date # dateString)
  IN  /\ dailyGoals' = otherGoals \o updatedGoals
      /\ ShowGoals(LoadedGoals(otherGoals \o updatedGoals, selectedDay))

\* addGoal(categoryId) with id the new UUID; the page offers the loaded
\* categories that have no goal on the day yet
addGoal(id, categoryId, selectedDay) ==
  LET dateString == getDateString(Midnight(selectedDay))
      goals == todaysGoals(dailyGoals, dateString)
  IN  /\ Has("categories", categoryId)
      /\ \A i \in DOMAIN goals : goals[i].categoryId # categoryId
      /\ \A i \in DOMAIN dailyGoals : dailyGoals[i].id # id
      /\ saveGoals(Append(goals, DailyGoal(id, categoryId, 60, dateString)), selectedDay)

RECURSIVE ParseDigits(_, _)
\* the number of the leading decimal digits of chars, after value
ParseDigits(chars, value) ==
  IF chars = << >> \/ Head(chars) < 48 \/ Head(chars) > 57 THEN value
  ELSE ParseDigits(Tail(chars), value * 10 + (Head(chars) - 48))

\* parseInt(string) of a string that starts with an optional sign and a digit
parseInt(chars) ==
  IF Head(chars) = 45 THEN -ParseDigits(Tail(chars), 0) ELSE ParseDigits(chars, 0)

\* updateGoal(goalId, parseInt(editValue)) of a goal shown for the day:
\* the Save button of the goal being edited
updateGoal(goalId, editValue, selectedDay) ==
  LET dateString == getDateString(Midnight(selectedDay))
      goals == todaysGoals(dailyGoals, dateString)
  IN  /\ \E i \in DOMAIN goals : goals[i].id = goalId
      /\ saveGoals([i \in DOMAIN goals |->
                      IF goals[i].id = goalId
                      THEN [goals[i] EXCEPT !.targetMinutes = parseInt(editValue)]
                      ELSE goals[i]],
                   selectedDay)

\* removeGoal(goalId) of a goal shown for the day
removeGoal(goalId, selectedDay) ==
  LET dateString == getDateString(Midnight(selectedDay))
      goals == todaysGoals(dailyGoals, dateString)
  IN  /\ \E i \in DOMAIN goals : goals[i].id = goalId
      /\ saveGoals(SelectSeq(goals, LAMBDA goal : goal.id # goalId), selectedDay)

\* subDays(date, amount)
subDays(date, amount) == date - amount * 1440

\* the abbreviated names of the months, as format writes 'MMM'
MonthAbbreviations ==
  << << 74, 97, 110 >>, << 70, 101, 98 >>, << 77, 97, 114 >>, << 65, 112, 114 >>,
     << 77, 97, 121 >>, << 74, 117, 110 >>, << 74, 117, 108 >>, << 65, 117, 103 >>,
     << 83, 101, 112 >>, << 79, 99, 116 >>, << 78, 111, 118 >>, << 68, 101, 99 >> >>

\* format(date, 'MMM d'): the month's abbreviation, a space, the day of the
\* month without padding
formatMMMd(date) ==
  LET md == MonthAndDay(date \div 1440, 1)
  IN  MonthAbbreviations[md[1]] \o << 32 >>
        \o (IF md[2] < 10 THEN << 48 + md[2] >>
            ELSE << 48 + (md[2] \div 10), 48 + (md[2] % 10) >>)

\* categories.find(cat => cat.id === categoryId): the positions that match
FoundCategories(categories, categoryId) ==
  {k \in DOMAIN categories : categories[k].id = categoryId}

\* categoryTime.set(name, (categoryTime.get(name) || 0) + minutes) on the Map
\* as the sequence of its entries in insertion order
MapAdd(categoryTime, name, minutes) ==
  IF \E k \in DOMAIN categoryTime : categoryTime[k].name = name
  THEN [k \in DOMAIN categoryTime |->
          IF categoryTime[k].name = name
          THEN [categoryTime[k] EXCEPT !.minutes = @ + minutes] ELSE categoryTime[k]]
  ELSE Append(categoryTime, [name |-> name, minutes |-> minutes])

RECURSIVE AddCategoryTime(_, _, _, _)
\* dayActivities.forEach(activity => ...) from position k on: the duration of
\* an activity whose category is found is added under the category's name
AddCategoryTime(categoryTime, dayActs, categories, k) ==
  IF k > Len(dayActs) THEN categoryTime
  ELSE LET found == FoundCategories(categories, dayActs[k].categoryId)
           category == categories[CHOOSE c \in found : \A d \in found : c <= d]
       IN  AddCategoryTime(IF found = {} THEN categoryTime
                           ELSE MapAdd(categoryTime, category.name, dayActs[k].duration),
                           dayActs, categories, k + 1)

\* variant: a day without activities gets no entry
TrendStep_SkipsEmptyDays(acc, activities, endDate, i) ==
  LET currentDate == subDays(endDate, 29 - i)
      dateString == getDateString(currentDate)
      dayActs == SelectSeq(activities, LAMBDA a : a.date = dateString)
      entries == Request("vitalityEntries", "index.getAll", KeyRangeOnly(dateString))
      m == calculateDailyMetrics(dayActs, defaultCategories, entries.value,
                                 defaultVitalityBonuses)
  IN  [trends |->
         IF dayActs = << >> THEN acc.trends
         ELSE Append(acc.trends,
                     [date |-> formatMMMd(currentDate),
                      totalScore |-> m.totalScore,
                      focusRatio |-> m.focusRatio,
                      distractionRatio |-> m.distractionRatio,
                      productivityThroughput |-> m.productivityThroughput,
                      totalTimeLogged |-> m.totalTimeLogged]),
       energyCorrelation |->
         [High |-> acc.energyCorrelation.High + m.energyFocusCorrelation.high,
          Medium |-> acc.energyCorrelation.Medium + m.energyFocusCorrelation.medium,
          Low |-> acc.energyCorrelation.Low + m.energyFocusCorrelation.low],
       categoryTime |-> AddCategoryTime(acc.categoryTime, dayActs, defaultCategories, 1)]

\* variant: energyCorrelation is assigned the day's buckets, not added to
TrendStep_OverwritesEnergy(acc, activities, endDate, i) ==
  LET currentDate == subDays(endDate, 29 - i)
      dateString == getDateString(currentDate)
      dayActs == SelectSeq(activities, LAMBDA a : a.date = dateString)
      entries == Request("vitalityEntries", "index.getAll", KeyRangeOnly(dateString))
      m == calculateDailyMetrics(dayActs, defaultCategories, entries.value,
                                 defaultVitalityBonuses)
  IN  [trends |->
         Append(acc.trends,
                [date |-> formatMMMd(currentDate),
                 totalScore |-> m.totalScore,
                 focusRatio |-> m.focusRatio,
                 distractionRatio |-> m.distractionRatio,
                 productivityThroughput |-> m.productivityThroughput,
                 totalTimeLogged |-> m.totalTimeLogged]),
       energyCorrelation |->
         [High |-> m.energyFocusCorrelation.high,
          Medium |-> m.energyFocusCorrelation.medium,
          Low |-> m.energyFocusCorrelation.low],
       categoryTime |-> AddCategoryTime(acc.categoryTime, dayActs, defaultCategories, 1)]

\* iteration i of the for loop of loadTrendData: the day's activities of the
\* range, the day's vitality entries from the store, the day's metrics pushed
\* to trends and added to energyCorrelation and categoryTime
TrendStep(acc, activities, endDate, i) ==
  LET currentDate == subDays(endDate, 29 - i)
      dateString == getDateString(currentDate)
      dayActs == SelectSeq(activities, LAMBDA a : a.date = dateString)
      entries == Request("vitalityEntries", "index.getAll", KeyRangeOnly(dateString))
      m == calculateDailyMetrics(dayActs, defaultCategories, entries.value,
                                 defaultVitalityBonuses)
  IN  [trends |->
         Append(acc.trends,
                [date |-> formatMMMd(currentDate),
                 totalScore |-> m.totalScore,
                 focusRatio |-> m.focusRatio,
                 distractionRatio |-> m.distractionRatio,
                 productivityThroughput |-> m.productivityThroughput,
                 totalTimeLogged |-> m.totalTimeLogged]),
       energyCorrelation |->
         [High |-> acc.energyCorrelation.High + m.energyFocusCorrelation.high,
          Medium |-> acc.energyCorrelation.Medium + m.energyFocusCorrelation.medium,
          Low |-> acc.energyCorrelation.Low + m.energyFocusCorrelation.low],
       categoryTime |-> AddCategoryTime(acc.categoryTime, dayActs, defaultCategories, 1)]

RECURSIVE TrendLoop(_, _, _, _)
\* for (let i = 0; i < 30; i++)
TrendLoop(acc, activities, endDate, i) ==
  IF i >= TrendDays THEN acc
  ELSE TrendLoop(TrendStep(acc, activities, endDate, i), activities, endDate, i + 1)

\* where sort((a, b) => b.minutes - a.minutes), which is stable, puts entry
\* among the sorted ones: behind every one of no fewer minutes
InsertByMinutes(sorted, entry) ==
  LET ahead == {k \in DOMAIN sorted : sorted[k].minutes >= entry.minutes}
      n == Cardinality(ahead)
  IN  SubSeq(sorted, 1, n) \o << entry >> \o SubSeq(sorted, n + 1, Len(sorted))

RECURSIVE SortByMinutes(_, _)
\* the entries from position k on, each inserted into the ones before
SortByMinutes(entries, k) ==
  IF k = 0 THEN << >>
  ELSE InsertByMinutes(SortByMinutes(entries, k - 1), entries[k])

\* TrendAnalysis.loadTrendData on endDate; build v2 has no
\* getActivitiesInRange (a TypeError); any failure is caught and leaves the
\* charts as they were
loadTrendData(endDate) ==
  \E activities \in {IF build = "v1"
                     THEN RangeRequest("activities", getDateString(subDays(endDate, 29)),
                                       getDateString(endDate))
                     ELSE Failed(<< >>, "TypeError")} :
    /\ IF activities.outcome = "rejected"
       THEN /\ lastCall' = Call("getActivitiesInRange", NoKey, FALSE, activities)
            /\ UNCHANGED << energyFocusData, trendData, categoryTimeData >>
       ELSE \E loop \in {TrendLoop([trends |-> << >>,
                                   energyCorrelation |-> [High |-> 0, Medium |-> 0, Low |-> 0],
                                   categoryTime |-> << >>],
                                  activities.value, endDate, 0)} :
              /\ trendData' = loop.trends
              /\ energyFocusData' =
                   << [energyLevel |-> "High",
                       deepWorkHours |-> Rat(loop.energyCorrelation.High, 60)],
                      [energyLevel |-> "Medium",
                       deepWorkHours |-> Rat(loop.energyCorrelation.Medium, 60)],
                      [energyLevel |-> "Low",
                       deepWorkHours |-> Rat(loop.energyCorrelation.Low, 60)] >>
              /\ categoryTimeData' = SortByMinutes(loop.categoryTime, Len(loop.categoryTime))
              /\ lastCall' = Call("getVitalityEntriesByDate", NoKey, FALSE,
                                  Request("vitalityEntries", "index.getAll",
                                          KeyRangeOnly(getDateString(endDate))))
    /\ UNCHANGED << build, db, diskVersion, stores, metricVars, goalProgress, dailyGoals,
                    toggles, dayCell >>

\* ------------------------------------------------------------------------
\* MonthlyOverview (components/analytics/MonthlyOverview.tsx)
\* ------------------------------------------------------------------------

\* the instant the day-th day (from 0) of 2024 starts in local time
LocalMidnight(day) == Midnight(day) - timezone

RECURSIVE startOfMonth(_)
\* startOfMonth: the day (from 0) the month starts with
startOfMonth(month) ==
  IF month = 1 THEN 0 ELSE startOfMonth(month - 1) + MonthLengths[month - 1]

\* Date.prototype.getDay of a local day: 2024-01-01 is a Monday
getDay(day) == (day + 1) % 7

\* addDays(monthStart, -monthStart.getDay()): the Sunday the grid starts with
calendarStart(month) == startOfMonth(month) - getDay(startOfMonth(month))

\* the 42 days of the grid
calendarDays(month) == [i \in 1 .. 42 |-> calendarStart(month) + (i - 1)]

\* isSameMonth(day, currentMonth)
isSameMonth(day, month) == MonthAndDay(day, 1)[1] = month

\* the DayData of one day of the grid, from what the range queries returned
DayDataOf(day, month, activities, vitalityEntries) ==
  LET dateString == getDateString(LocalMidnight(day))
      dayActs == SelectSeq(activities, LAMBDA a : a.date = dateString)
      dayEntries == SelectSeq(vitalityEntries, LAMBDA e : e.date = dateString)
  IN  [date |-> day,
       dateString |-> dateString,
       totalScore |->
         IF Len(dayActs) > 0
         THEN calculateDailyMetrics(dayActs, defaultCategories, dayEntries,
                                    defaultVitalityBonuses).totalScore
         ELSE 0,
       isCurrentMonth |-> isSameMonth(day, month),
       activities |-> dayActs]

\* loadMonthData up to setMonthData, on the object stores its two range
\* queries find
LoadedMonth(objectStores, month) ==
  LET startDate == getDateString(LocalMidnight(calendarStart(month)))
      endDate == getDateString(LocalMidnight(calendarStart(month) + 41))
      activitiesData ==
        RequestIn(objectStores, "activities", "index.getAll",
                  KeyRangeBound(startDate, endDate))
      vitalityData ==
        RequestIn(objectStores, "vitalityEntries", "index.getAll",
                  KeyRangeBound(startDate, endDate))
      ok == activitiesData.outcome = "resolved" /\ vitalityData.outcome = "resolved"
  IN  [month |-> month,
       ok |-> ok,
       lastRequest |-> IF activitiesData.outcome = "rejected" THEN activitiesData
                       ELSE vitalityData,
       monthData |->
         IF ok
         THEN [i \in 1 .. 42 |->
                 DayDataOf(calendarDays(month)[i], month, activitiesData.value,
                           vitalityData.value)]
         ELSE << >>]

\* loadMonthData() as the effect on currentMonth calls it: setLoading(true)
\* and both range queries are sent; build v2 has no getActivitiesInRange
\* (a TypeError) and a closed database rejects at once, both caught, and
\* finally setLoading(false)
loadMonthData(month, shown) ==
  IF build = "v2"
  THEN /\ lastCall' = Call("getActivitiesInRange", NoKey, FALSE,
                           Failed(<< >>, "TypeError"))
       /\ calendar' = [shown EXCEPT !.loading = FALSE]
  ELSE \E loaded \in {LoadedMonth(stores, month)} :
         /\ lastCall' = Call("getVitalityEntriesInRange", NoKey, FALSE, loaded.lastRequest)
         /\ calendar' = IF db = "null"
                        THEN [shown EXCEPT !.loading = FALSE]
                        ELSE [shown EXCEPT !.loading = TRUE,
                                           !.loads = Append(@, loaded)]

\* the Monthly Overview tab is shown: a new MonthlyOverview mounts and its
\* effect loads the month; what an earlier instance still awaits no
\* longer shows
mountMonthlyOverview ==
  /\ loadMonthData(MonthlyOverviewState.currentMonth, MonthlyOverviewState)
  /\ UNCHANGED << build, db, diskVersion, stores, viewVars, mounted, timezone, form, tasksPage, seeds >>

\* the chevrons: setCurrentMonth(addMonths(currentMonth, amount)), and the
\* effect on currentMonth loads the month
changeMonth(amount) ==
  /\ loadMonthData(calendar.currentMonth + amount,
                   [calendar EXCEPT !.currentMonth = @ + amount])
  /\ UNCHANGED << build, db, diskVersion, stores, viewVars, mounted, timezone, form, tasksPage, seeds >>

\* the range queries of the i-th load in flight settle: setMonthData of
\* what they returned, or the catch, and finally setLoading(false)
monthLoadSettles(i) ==
  /\ i \in 1 .. Len(calendar.loads)
  /\ calendar' = [calendar EXCEPT
                    !.monthData = IF calendar.loads[i].ok
                                  THEN calendar.loads[i].monthData ELSE @,
                    !.loading = FALSE,
                    !.loads = Without(@, i)]
  /\ UNCHANGED << storeVars, viewVars, mounted, timezone, form, tasksPage, seeds >>

\* ------------------------------------------------------------------------
\* Tasks (pages/Tasks.tsx): its handlers, each awaiting one write
\* ------------------------------------------------------------------------

\* a Task without a due date
Task(id, title, priority, scope, completed, createdDate) ==
  [id |-> id, title |-> title, priority |-> priority, scope |-> scope,
   completed |-> completed, timeLogged |-> 0, createdDate |-> createdDate]

\* String.prototype.trim of a title of at most one space
Trim(title) == IF title = " " THEN "" ELSE title

\* await db.addTask(task) or db.updateTask(task) as a handler reaches it:
\* build v1 has neither method (a TypeError), a closed database rejects at
\* once, both caught by the handler; otherwise the put is queued and the
\* handler waits with the tasks of the render it was made in
AwaitTaskWrite(op, task) ==
  IF build = "v1" \/ db = "null"
  THEN /\ lastCall' = Call(op, task.id, FALSE,
                           Failed(<< >>, IF build = "v1" THEN "TypeError"
                                         ELSE "NotInitialized"))
       /\ UNCHANGED << build, db, diskVersion, stores, tasksPage >>
  ELSE /\ tasksPage' = [tasksPage EXCEPT
                          !.calls = Append(@, [op |-> op, task |-> task,
                                               tasks |-> tasksPage.tasks])]
       /\ UNCHANGED storeVars

\* handleAddTask() with newTask.title the title and id the new UUID
handleAddTask(title, uuid, now) ==
  /\ IF Trim(title) = ""
     THEN UNCHANGED << storeVars, tasksPage >>
     ELSE AwaitTaskWrite("addTask",
                         Task(uuid, title, "Medium", "Today", FALSE, getDateString(now)))
  /\ UNCHANGED << viewVars, mounted, timezone, calendar, form, seeds >>

\* handleTaskToggle(taskId, completed)
handleTaskToggle(taskId, completed) ==
  /\ IF \A i \in DOMAIN tasksPage.tasks : tasksPage.tasks[i].id # taskId
     THEN UNCHANGED << storeVars, tasksPage >>
     ELSE LET task == tasksPage.tasks[CHOOSE i \in DOMAIN tasksPage.tasks :
                                       /\ tasksPage.tasks[i].id = taskId
                                       /\ \A j \in 1 .. i - 1 :
                                            tasksPage.tasks[j].id # taskId]
          IN  AwaitTaskWrite("updateTask", [task EXCEPT !.completed = completed])
  /\ UNCHANGED << viewVars, mounted, timezone, calendar, form, seeds >>

\* the setTasks of a handler whose write resolved: [...tasks, task] or
\* tasks.map(t => t.id === taskId ? updatedTask : t), tasks being the list
\* of the render the handler was made in
TasksAfter(call, current) ==
  IF call.op = "addTask" THEN Append(call.tasks, call.task)
  ELSE [i \in DOMAIN call.tasks |->
          IF call.tasks[i].id = call.task.id THEN call.task ELSE call.tasks[i]]

\* the oldest queued write settles (transactions on one store run in the
\* order they were made) and its handler goes on
taskWriteSettles ==
  /\ tasksPage.calls # << >>
  /\ LET call == Head(tasksPage.calls)
         r == Request("tasks", "put", call.task)
     IN  /\ lastCall' = Call(call.op, call.task.id, Has("tasks", call.task.id), r)
         /\ stores' = IF r.outcome = "resolved"
                      THEN [stores EXCEPT !["tasks"] = r.store] ELSE stores
         /\ tasksPage' = [tasks |-> IF r.outcome = "resolved"
                                    THEN TasksAfter(call, tasksPage.tasks)
                                    ELSE tasksPage.tasks,
                          calls |-> Tail(tasksPage.calls)]
  /\ UNCHANGED << build, db, diskVersion, viewVars, mounted, timezone, calendar, form,
                  seeds >>

\* ------------------------------------------------------------------------
\* initializeDefaultData, one awaited request at a time
\* ------------------------------------------------------------------------

\* the defaults initializeDefaultData adds to a collection
SeedDefaults(storeName) ==
  IF storeName = "categories" THEN defaultCategories ELSE defaultVitalityBonuses

\* initializeDefaultData() up to its first await: it throws on a closed
\* database, otherwise it is about to count the categories (i = 0: the
\* getCount of the collection is next; i > 0: the add of its i-th default)
startSeed ==
  /\ IF db = "null"
     THEN /\ lastCall' = Call("initializeDefaultData", NoKey, FALSE,
                              Failed(<< >>, "NotInitialized"))
          /\ UNCHANGED << build, db, diskVersion, stores, seeds >>
     ELSE /\ seeds' = Append(seeds, [storeName |-> "categories", i |-> 0])
          /\ UNCHANGED storeVars
  /\ UNCHANGED << viewVars, mounted, timezone, calendar, form, tasksPage >>

\* the request a call of initializeDefaultData awaits: getCount(storeName),
\* or addCategory / addVitalityBonus of the next default (add in build v1,
\* put in build v2)
SeedRequest(call) ==
  IF call.i = 0 THEN Request(call.storeName, "count", NoKey)
  ELSE Request(call.storeName, IF build = "v1" THEN "add" ELSE "put",
               SeedDefaults(call.storeName)[call.i])

\* the request awaited by the k-th call of initializeDefaultData settles
\* and the call goes on to its next await: a rejection ends the call, a
\* count other than 0 or the last default ends the collection, the end of
\* the vitality bonuses ends the call
seedStep(k) ==
  /\ k \in DOMAIN seeds
  /\ LET call == seeds[k]
         r == SeedRequest(call)
         storeDone == /\ r.outcome = "resolved"
                      /\ IF call.i = 0 THEN r.value # 0
                         ELSE call.i = Len(SeedDefaults(call.storeName))
         returns == r.outcome = "rejected" \/ (storeDone /\ call.storeName = "vitality")
     IN  /\ stores' = IF r.outcome = "resolved"
                      THEN [stores EXCEPT ![call.storeName] = r.store] ELSE stores
         /\ lastCall' =
              IF returns
              THEN Call("initializeDefaultData", NoKey, FALSE,
                        IF r.outcome = "resolved" THEN Succeeded(<< >>, << >>) ELSE r)
              ELSE IF call.i = 0
              THEN Call("getCount", NoKey, FALSE, [r EXCEPT !.value = << >>])
              ELSE Call(IF call.storeName = "categories" THEN "addCategory"
                        ELSE "addVitalityBonus",
                        SeedDefaults(call.storeName)[call.i].id,
                        Has(call.storeName, SeedDefaults(call.storeName)[call.i].id), r)
         /\ seeds' = IF returns THEN Without(seeds, k)
                     ELSE IF storeDone
                     THEN [seeds EXCEPT ![k] = [storeName |-> "vitality", i |-> 0]]
                     ELSE [seeds EXCEPT ![k].i = @ + 1]
  /\ UNCHANGED << build, db, diskVersion, viewVars, mounted, timezone, calendar, form,
                  tasksPage >>

\* the page is closed and loaded anew: the calls in flight end where they
\* are, what they wrote stays
reloadWhileSeeding(newBuild) ==
  /\ reload(newBuild)
  /\ seeds' = << >>
  /\ UNCHANGED << mounted, timezone, calendar, form, tasksPage >>

\* ------------------------------------------------------------------------
\* VitalityChecklist (components/VitalityChecklist.tsx)
\* ------------------------------------------------------------------------

\* the effect on [entries]: new Set(entries.filter(entry =>
\* entry.completed).map(entry => entry.bonusId))
completedBonuses(entries) ==
  {entries[i].bonusId : i \in {j \in DOMAIN entries : entries[j].completed}}

\* bonuses.filter(bonus => completed.has(bonus.id)).reduce((sum, bonus) =>
\* sum + bonus.points, 0), from the i-th bonus on, in points
RECURSIVE PointsOfCompleted(_, _, _)
PointsOfCompleted(bonuses, completed, i) ==
  IF i > Len(bonuses) THEN 0
  ELSE (IF bonuses[i].id \in completed THEN bonuses[i].points ELSE 0)
       + PointsOfCompleted(bonuses, completed, i + 1)

\* earnedPoints of the checklist rendered with the entries
earnedPoints(bonuses, entries) ==
  PointsOfCompleted(bonuses, completedBonuses(entries), 1)

UnitNext ==
  \/ init /\ UNCHANGED shellVars
  \/ \E id \in Ids, c \in UnitCategoryIds, endTime \in UnitEndTimes,
        e \in UnitEnergyLevels :
       /\ Fits("activities", id)
       /\ ~Has("activities", id)
       /\ handleSubmit(id, c, UnitDay, UnitStartTime, endTime, e) /\ UNCHANGED shellVars
  \/ \E day \in {UnitDay, UnitDay + 1} : loadDayData(day) /\ UNCHANGED shellVars
  \/ initializeDefaultData /\ UNCHANGED shellVars
  \/ (Len(dailyGoals) < 1 /\ addGoal("id-1", "deep-work", UnitDay)) /\ UNCHANGED shellVars
  \/ loadData(UnitDay) /\ UNCHANGED shellVars
  \/ loadTrendData(UnitToday) /\ UNCHANGED shellVars

SpecUnits == StoreInit /\ [][UnitNext]_vars


\* ------------------------------------------------------------------------
\* Export, import and clearing among the writes of the user's data
\* ------------------------------------------------------------------------

\* the snapshot of exportData() is taken to a new profile (no database on
\* disk, empty localStorage), which opens its database with init() and loads
\* the snapshot with importAll(); the new profile's store is the store from
\* then on
restoreOnFreshStore(now) ==
  /\ build = "v1"
  /\ db = "open"
  /\ \E exported \in {ExportResult(now)} :
       /\ exported.outcome = "resolved"
       /\ stores' = ImportInto(UpgradeV1, exported.value)
  /\ dailyGoals' = << >>
  /\ lastCall' = Call("importAll", NoKey, FALSE, Succeeded(<< >>, << >>))
  /\ UNCHANGED << build, db, diskVersion, metricVars, goalProgress, energyFocusData,
                  toggles, trendData, categoryTimeData, dayCell >>

\* the goals of a page stay within MaxRecords
FitsGoals == Len(dailyGoals) < MaxRecords

\* the activities and the completed entries of the day the goals page shows
PortableActivities == {a \in StoreActivities : a.date = getDateString(Midnight(UnitDay))}

PortableEntries ==
  {e \in StoreEntries : e.date = getDateString(Midnight(UnitDay)) /\ e.completed}

PortabilityNext ==
  \/ init /\ UNCHANGED shellVars
  \/ initializeDefaultData /\ UNCHANGED shellVars
  \/ \E a \in PortableActivities : FitsUserData("activities", a.id) /\ addActivity(a)
    /\ UNCHANGED shellVars
  \/ \E e \in PortableEntries :
       FitsUserData("vitalityEntries", e.id) /\ updateVitalityEntry(e) /\ UNCHANGED shellVars
  \/ \E t \in StoreTasks : FitsUserData("tasks", t.id) /\ addTask(t) /\ UNCHANGED shellVars
  \/ \E id \in Ids, c \in UnitCategoryIds : FitsGoals /\ addGoal(id, c, UnitDay)
    /\ UNCHANGED shellVars
  \/ \E id \in Ids : removeGoal(id, UnitDay) /\ UNCHANGED shellVars
  \/ loadData(UnitDay) /\ UNCHANGED shellVars
  \/ exportData(UnitToday) /\ UNCHANGED shellVars
  \/ clearAllData /\ UNCHANGED shellVars
  \/ restoreOnFreshStore(UnitToday) /\ UNCHANGED shellVars

SpecPortability == StoreInit /\ [][PortabilityNext]_vars

\* ------------------------------------------------------------------------
\* The trend charts over the writes of thirty days
\* ------------------------------------------------------------------------

\* the days activities are logged on: 2024-01-03, the day before the window
\* of UnitToday, and Jan 31 and Feb 2 in it
TrendActivityDays == {2, 30, 32}

\* deep work of an hour at high energy under the first id on the first two
\* days, an hour of either category at high or low energy under the other
\* ids on the last
TrendActivities ==
  { a \in { ActivityLog(id, "Write report", c, Midnight(d) + 540, Midnight(d) + 600,
                        getDateString(Midnight(d)), e, 60,
                        60 * MapById(defaultCategories)[c].points) :
              id \in Ids, d \in TrendActivityDays, c \in UnitCategoryIds,
              e \in UnitEnergyLevels } :
      IF a.id = "id-1"
      THEN /\ a.categoryId = "deep-work" /\ a.energyLevel = "High"
           /\ a.startTime.time < Midnight(32)
      ELSE a.startTime.time > Midnight(32) }

\* the bonus of the day between, done or not
TrendEntries == {e \in StoreEntries : e.id = "id-1" /\ e.date = getDateString(Midnight(31))}

TrendNext ==
  \/ init /\ UNCHANGED shellVars
  \/ \E a \in TrendActivities : FitsUserData("activities", a.id) /\ addActivity(a)
    /\ UNCHANGED shellVars
  \/ \E id \in Ids : deleteActivity(id) /\ UNCHANGED shellVars
  \/ \E e \in TrendEntries : FitsUserData("vitalityEntries", e.id) /\ updateVitalityEntry(e)
    /\ UNCHANGED shellVars
  \/ loadTrendData(UnitToday) /\ UNCHANGED shellVars

SpecTrend == StoreInit /\ [][TrendNext]_vars

\* ------------------------------------------------------------------------
\* The calendar: days of every score
\* ------------------------------------------------------------------------

\* the highest score of a day, in points
MaxScore == 21

\* from a point below zero up, in sixtieths
Scores == -PointScale .. MaxScore * PointScale

\* a day of the calendar is rendered with its score
renderDay(score) ==
  /\ dayCell' = DayCell(score)
  /\ UNCHANGED << metricVars, storeVars, goalProgress, energyFocusData, dailyGoals,
                  toggles, trendData, categoryTimeData, shellVars >>

CalendarNext == \E score \in Scores : renderDay(score)

SpecCalendar == StoreInit /\ [][CalendarNext]_vars

\* ------------------------------------------------------------------------
\* The Dashboard's vitality checklist: toggles in flight
\* ------------------------------------------------------------------------

MaxToggles == 2

ToggledBonusIds == {"sleep", "meditation"}

ToggleNext ==
  \/ init /\ UNCHANGED shellVars
  \/ initializeDefaultData /\ UNCHANGED shellVars
  \/ loadDayData(UnitDay) /\ UNCHANGED shellVars
  \/ \E bonusId \in ToggledBonusIds, completed \in BOOLEAN, uuid \in Ids :
       /\ Len(toggles) < MaxToggles
       /\ handleVitalityToggle(bonusId, completed, UnitDay, uuid) /\ UNCHANGED shellVars
  \/ toggleWriteSettles(UnitDay) /\ UNCHANGED shellVars
  \/ toggleReloadSettles /\ UNCHANGED shellVars

SpecToggle == StoreInit /\ [][ToggleNext]_vars

\* ------------------------------------------------------------------------
\* The life of the database: page loads of either build, every public method
\* ------------------------------------------------------------------------

Builds == {"v1", "v2"}

\* the day the pages show and the day after
LifecycleDates == {getDateString(Midnight(UnitDay)), getDateString(Midnight(UnitDay + 1))}

\* one activity and one completed entry of the day, one open task
LifecycleActivities == {a \in PortableActivities : a.id = "id-1"}

LifecycleEntries == {e \in PortableEntries : e.id = "id-1"}

LifecycleTasks == {t \in StoreTasks : t.id = "id-1" /\ ~t.completed}

LifecycleNext ==
  \/ init /\ UNCHANGED shellVars
  \/ \E b \in Builds : reload(b) /\ UNCHANGED shellVars
  \/ initializeDefaultData /\ UNCHANGED shellVars
  \/ getCategories /\ UNCHANGED shellVars
  \/ getVitalityBonuses /\ UNCHANGED shellVars
  \/ \E c \in StoreCategories : addCategory(c) /\ UNCHANGED shellVars
  \/ \E b \in StoreBonuses : addVitalityBonus(b) /\ UNCHANGED shellVars
  \/ \E a \in LifecycleActivities : FitsUserData("activities", a.id) /\ addActivity(a)
    /\ UNCHANGED shellVars
  \/ \E a \in LifecycleActivities : FitsUserData("activities", a.id) /\ updateActivity(a)
    /\ UNCHANGED shellVars
  \/ \E id \in Ids : deleteActivity(id) /\ UNCHANGED shellVars
  \/ getActivitiesByDate(getDateString(Midnight(UnitDay))) /\ UNCHANGED shellVars
  \/ \E e \in LifecycleEntries : FitsUserData("vitalityEntries", e.id) /\ addVitalityEntry(e)
    /\ UNCHANGED shellVars
  \/ \E e \in LifecycleEntries :
       FitsUserData("vitalityEntries", e.id) /\ updateVitalityEntry(e) /\ UNCHANGED shellVars
  \/ getVitalityEntriesByDate(getDateString(Midnight(UnitDay))) /\ UNCHANGED shellVars
  \/ \E s, e \in LifecycleDates : getActivitiesInRange(s, e) /\ UNCHANGED shellVars
  \/ \E s, e \in LifecycleDates : getVitalityEntriesInRange(s, e) /\ UNCHANGED shellVars
  \/ getAllActivitiesForAnalytics /\ UNCHANGED shellVars
  \/ exportData(UnitToday) /\ UNCHANGED shellVars
  \/ clearAllData /\ UNCHANGED shellVars
  \/ \E t \in LifecycleTasks : FitsUserData("tasks", t.id) /\ addTask(t)
    /\ UNCHANGED shellVars
  \/ \E t \in LifecycleTasks : FitsUserData("tasks", t.id) /\ updateTask(t)
    /\ UNCHANGED shellVars
  \/ getTasksByDate(getDateString(Midnight(30))) /\ UNCHANGED shellVars
  \/ \E id \in Ids : deleteTask(id) /\ UNCHANGED shellVars

SpecLifecycle == StoreInit /\ [][LifecycleNext]_vars

\* ------------------------------------------------------------------------
\* The pages' mount effects, whichever page the app is opened at
\* ------------------------------------------------------------------------

Pages == {"Dashboard", "Analytics", "Tasks", "DailyGoals"}

\* the effect goes on to pc, or ends: "failed" in its catch
Goes(pc) ==
  mounted' = [mounted EXCEPT !.pc = IF lastCall'.outcome = "resolved" THEN pc ELSE "failed"]

\* the browser loads the app of one of the builds at the route of a page
open(page, newBuild) ==
  /\ reload(newBuild)
  /\ mounted' = [page |-> page, pc |-> "mount"]

\* the router shows another page once the effect of the one shown has
\* ended; the DatabaseManager of the module stays
navigate(page) ==
  /\ mounted.page \notin {"none", page}
  /\ mounted.pc \in {"done", "failed"}
  /\ mounted' = [page |-> page, pc |-> "mount"]
  /\ UNCHANGED << storeVars, viewVars >>

\* Dashboard.initializeData and Analytics.initializeData, one await after
\* the other: db.init(), db.initializeDefaultData(), then getCategories()
\* and getVitalityBonuses(); the Dashboard's catch leaves isLoading set, the
\* finally of Analytics shows the tabs whatever happened
initializeData ==
  /\ mounted.page \in {"Dashboard", "Analytics"}
  /\ \/ mounted.pc = "mount" /\ init /\ Goes("seed")
     \/ mounted.pc = "seed" /\ initializeDefaultData /\ Goes("categories")
     \/ mounted.pc = "categories" /\ getCategories /\ Goes("bonuses")
     \/ mounted.pc = "bonuses" /\ getVitalityBonuses /\ Goes("ready")

\* the Dashboard's effect on isLoading: loadDayData() of the selected day
dashboardShowsDay ==
  /\ mounted = [page |-> "Dashboard", pc |-> "ready"]
  /\ loadDayData(UnitDay)
  /\ mounted' = [mounted EXCEPT !.pc = "done"]

\* the week of UnitToday, Monday to Sunday
WeekStart == Midnight(UnitDay - 3)

WeekEnd == Midnight(UnitDay + 3)

\* Analytics shows its first tab: WeeklyTimetable.loadWeekData, whose
\* getActivitiesInRange build v2 does not have (a TypeError)
loadWeekData ==
  /\ mounted.page = "Analytics"
  /\ mounted.pc \in {"ready", "failed"}
  /\ IF build = "v1"
     THEN getActivitiesInRange(getDateString(WeekStart), getDateString(WeekEnd))
     ELSE /\ lastCall' = Call("getActivitiesInRange", NoKey, FALSE,
                              Failed(<< >>, "TypeError"))
          /\ UNCHANGED << build, db, diskVersion, stores, viewVars >>
  /\ mounted' = [mounted EXCEPT !.pc = "done"]

\* Tasks.initializeTasks: db.init(), then db.getTasks(), which neither build
\* has (a TypeError)
initializeTasks ==
  /\ mounted.page = "Tasks"
  /\ \/ mounted.pc = "mount" /\ init /\ Goes("tasks")
     \/ /\ mounted.pc = "tasks"
        /\ lastCall' = Call("getTasks", NoKey, FALSE, Failed(<< >>, "TypeError"))
        /\ UNCHANGED << build, db, diskVersion, stores, viewVars >>
        /\ mounted' = [mounted EXCEPT !.pc = "failed"]

\* the effect of DailyGoals on selectedDate: loadData()
dailyGoalsLoads ==
  /\ mounted = [page |-> "DailyGoals", pc |-> "mount"]
  /\ loadData(UnitDay)
  /\ mounted' = [mounted EXCEPT !.pc = "done"]

PagesNext ==
  \/ \E page \in Pages, newBuild \in Builds : open(page, newBuild) /\ UNCHANGED tabVars
  \/ \E page \in Pages : navigate(page) /\ UNCHANGED tabVars
  \/ initializeData /\ UNCHANGED tabVars
  \/ dashboardShowsDay /\ UNCHANGED tabVars
  \/ loadWeekData /\ UNCHANGED tabVars
  \/ initializeTasks /\ UNCHANGED tabVars
  \/ dailyGoalsLoads /\ UNCHANGED tabVars
  \/ \E id \in Ids, c \in UnitCategoryIds, endTime \in UnitEndTimes :
       /\ mounted = [page |-> "Dashboard", pc |-> "done"]
       /\ FitsUserData("activities", id)
       /\ ~Has("activities", id)
       /\ handleSubmit(id, c, UnitDay, UnitStartTime, endTime, "High")
       /\ UNCHANGED shellVars
  \/ \E id \in Ids, c \in UnitCategoryIds :
       /\ mounted = [page |-> "DailyGoals", pc |-> "done"]
       /\ FitsGoals
       /\ addGoal(id, c, UnitDay)
       /\ UNCHANGED shellVars

SpecPages == StoreInit /\ [][PagesNext]_vars

\* ------------------------------------------------------------------------
\* The monthly calendar: days written on the Dashboard, months shown and
\* changed while earlier loads are in flight
\* ------------------------------------------------------------------------

\* the loadMonthData calls in flight at a time
MaxLoads == 2

\* the months of 2024 the chevrons reach
CalendarMonths == 2 .. 3

\* the time zones of the device: New York (winter), UTC, Paris (winter)
Timezones == {-300, 0, 60}

\* Feb 1 and Mar 1
MonthDays == {31, 60}

MonthActivities ==
  { ActivityLog("id-1", "Write report", "deep-work", Midnight(d) + 540, Midnight(d) + 600,
                getDateString(Midnight(d)), "High", 60, 180) : d \in MonthDays }

MonthEntries ==
  { VitalityEntry("id-1", getDateString(Midnight(d)), "sleep", c) :
      d \in MonthDays, c \in BOOLEAN }

\* the time zone of the device is set
setTimezone(tz) ==
  /\ timezone' = tz
  /\ UNCHANGED << storeVars, viewVars, mounted, calendar, form, tasksPage, seeds >>

MonthNext ==
  \/ init /\ UNCHANGED shellVars
  \/ \E a \in MonthActivities :
       calendar.loads = << >> /\ addActivity(a) /\ UNCHANGED shellVars
  \/ \E e \in MonthEntries :
       calendar.loads = << >> /\ addVitalityEntry(e) /\ UNCHANGED shellVars
  \/ \E tz \in Timezones : calendar.loads = << >> /\ setTimezone(tz)
  \/ Len(calendar.loads) < MaxLoads /\ mountMonthlyOverview
  \/ \E amount \in {-1, 1} :
       /\ Len(calendar.loads) < MaxLoads
       /\ calendar.currentMonth + amount \in CalendarMonths
       /\ changeMonth(amount)
  \/ \E i \in 1 .. MaxLoads : monthLoadSettles(i)

SpecMonth == StoreInit /\ [][MonthNext]_vars

\* ------------------------------------------------------------------------
\* The activity form: fields typed, activities logged, edited and submitted
\* with fields missing or wrong
\* ------------------------------------------------------------------------

FormNames == {"", "Write report"}

FormCategoryIds == {"", "deep-work", "distraction", DanglingCategoryId}

\* no time, 08:30, 09:00, 10:00
FormTimes == {<< >>, TimeValue(510), TimeValue(540), TimeValue(600)}

FormNext ==
  \/ init /\ UNCHANGED shellVars
  \/ \E name \in FormNames, categoryId \in FormCategoryIds, endTime \in FormTimes,
        startTime \in {<< >>, TimeValue(UnitStartTime)} :
       typeFields(name, categoryId, startTime, endTime, "Medium")
  \/ \E k \in DOMAIN dayActivities : startEdit(dayActivities[k])
  \/ cancelEdit
  \/ \E uuid \in Ids :
       /\ FitsUserData("activities", uuid)
       /\ ~Has("activities", uuid)
       /\ onSubmit(uuid, UnitDay)

SpecForm == StoreInit /\ [][FormNext]_vars

\* ------------------------------------------------------------------------
\* The goals page: goals added, edited and removed among the day's logging
\* ------------------------------------------------------------------------

\* what is typed into the field of the goal being edited: "30", "0", "-30"
GoalEditValues == {<< 51, 48 >>, << 48 >>, << 45, 51, 48 >>}

GoalsNext ==
  \/ init /\ UNCHANGED shellVars
  \/ initializeDefaultData /\ UNCHANGED shellVars
  \/ \E endTime \in UnitEndTimes :
       /\ ~Has("activities", "id-1")
       /\ handleSubmit("id-1", "deep-work", UnitDay, UnitStartTime, endTime, "High")
       /\ UNCHANGED shellVars
  \/ \E id \in Ids, c \in UnitCategoryIds : FitsGoals /\ addGoal(id, c, UnitDay)
    /\ UNCHANGED shellVars
  \/ \E id \in Ids, editValue \in GoalEditValues : updateGoal(id, editValue, UnitDay)
    /\ UNCHANGED shellVars
  \/ \E id \in Ids : removeGoal(id, UnitDay) /\ UNCHANGED shellVars
  \/ loadData(UnitDay) /\ UNCHANGED shellVars

SpecGoals == StoreInit /\ [][GoalsNext]_vars

\* ------------------------------------------------------------------------
\* The tasks page: tasks added and toggled while earlier writes are awaited
\* ------------------------------------------------------------------------

\* the handlers of the tasks page awaiting a write at a time
MaxHandlers == 2

TaskTitles == {"", " ", "Plan the week"}

\* the ids of the tasks being written
QueuedTaskIds == {tasksPage.calls[i].task.id : i \in DOMAIN tasksPage.calls}

TasksNext ==
  \/ init /\ UNCHANGED shellVars
  \/ \E title \in TaskTitles, uuid \in Ids :
       /\ Len(tasksPage.calls) < MaxHandlers
       /\ ~Has("tasks", uuid) /\ uuid \notin QueuedTaskIds
       /\ handleAddTask(title, uuid, UnitToday)
  \/ \E id \in Ids, completed \in BOOLEAN :
       /\ Len(tasksPage.calls) < MaxHandlers
       /\ handleTaskToggle(id, completed)
  \/ taskWriteSettles

SpecTasks == StoreInit /\ [][TasksNext]_vars

\* ------------------------------------------------------------------------
\* Seeding by two pages at once, and seeding after a page was closed
\* ------------------------------------------------------------------------

\* the calls of initializeDefaultData in flight at a time
MaxSeeds == 2

TwoSeedsNext ==
  \/ init /\ UNCHANGED shellVars
  \/ Len(seeds) < MaxSeeds /\ startSeed
  \/ \E k \in 1 .. MaxSeeds : seedStep(k)

SpecTwoSeeds == StoreInit /\ [][TwoSeedsNext]_vars

ReseedNext ==
  \/ TwoSeedsNext
  \/ reloadWhileSeeding(build)

SpecReseed == StoreInit /\ [][ReseedNext]_vars

\* ------------------------------------------------------------------------
\* Properties of the store
\* ------------------------------------------------------------------------

Records(storeName) == stores[storeName].records

\* the step left the database as it was and the promise was rejected
RejectedUnchanged == lastCall'.outcome = "rejected" /\ stores' = stores

\* the step resolved and left in the store exactly the old records with the
\* one of r's id replaced by (or extended with) r, every other store as it was
Upserted(storeName, r) ==
  /\ lastCall'.outcome = "resolved"
  /\ DOMAIN stores' = DOMAIN stores
  /\ DOMAIN stores'[storeName].records = DOMAIN Records(storeName) \cup {r.id}
  /\ stores'[storeName].records[r.id] = r
  /\ \A k \in DOMAIN Records(storeName) \ {r.id} :
       stores'[storeName].records[k] = Records(storeName)[k]
  /\ Cardinality(DOMAIN stores'[storeName].records) =
       Cardinality(DOMAIN Records(storeName)) + (IF Has(storeName, r.id) THEN 0 ELSE 1)
  /\ \A other \in DOMAIN stores \ {storeName} : stores'[other] = stores[other]

\* the step resolved and removed the record of the key, if any, and nothing else
Deleted(storeName, key) ==
  /\ lastCall'.outcome = "resolved"
  /\ DOMAIN stores' = DOMAIN stores
  /\ DOMAIN stores'[storeName].records = DOMAIN Records(storeName) \ {key}
  /\ \A k \in DOMAIN Records(storeName) \ {key} :
       stores'[storeName].records[k] = Records(storeName)[k]
  /\ \A other \in DOMAIN stores \ {storeName} : stores'[other] = stores[other]

\* C7: an insert of a record whose id is already in the collection is
\* rejected and leaves the collection unchanged; it never replaces the record.
C7_InsertRejectsDuplicate ==
  [][ /\ \A a \in StoreActivities :
           (db = "open" /\ addActivity(a) /\ Has("activities", a.id))
             => RejectedUnchanged
      /\ \A e \in StoreEntries :
           (db = "open" /\ addVitalityEntry(e) /\ Has("vitalityEntries", e.id))
             => RejectedUnchanged
      /\ \A t \in StoreTasks :
           (db = "open" /\ addTask(t) /\ Has("tasks", t.id)) => RejectedUnchanged
      /\ \A c \in StoreCategories :
           (db = "open" /\ addCategory(c) /\ Has("categories", c.id))
             => RejectedUnchanged
      /\ \A b \in StoreBonuses :
           (db = "open" /\ addVitalityBonus(b) /\ Has("vitality", b.id))
             => RejectedUnchanged ]_vars

\* C8: an upsert of r on an open store resolves; afterwards the collection
\* holds r under r.id, every record of another id as before, and one record
\* more only when r.id was absent.
C8_UpsertReplaces ==
  [][ /\ \A a \in StoreActivities :
           (db = "open" /\ updateActivity(a)) => Upserted("activities", a)
      /\ \A e \in StoreEntries :
           (db = "open" /\ updateVitalityEntry(e)) => Upserted("vitalityEntries", e)
      /\ \A t \in StoreTasks :
           (db = "open" /\ updateTask(t)) => Upserted("tasks", t) ]_vars

\* an activity was replaced by an update while another activity was stored
C8_Witness ==
  /\ lastCall.op = "updateActivity"
  /\ lastCall.outcome = "resolved"
  /\ lastCall.existed
  /\ Cardinality(DOMAIN Records("activities")) = 2

\* C9 as stated: an update of an absent id is a NotFound error that changes
\* nothing; a delete of an absent id is a no-op that succeeds, a delete of a
\* present id removes exactly that record.
C9_UpdateAbsentIsError ==
  [][ /\ \A a \in StoreActivities :
           (db = "open" /\ updateActivity(a) /\ ~Has("activities", a.id))
             => RejectedUnchanged
      /\ \A e \in StoreEntries :
           (db = "open" /\ updateVitalityEntry(e) /\ ~Has("vitalityEntries", e.id))
             => RejectedUnchanged
      /\ \A t \in StoreTasks :
           (db = "open" /\ updateTask(t) /\ ~Has("tasks", t.id)) => RejectedUnchanged
      /\ \A id \in Ids : (db = "open" /\ deleteActivity(id)) => Deleted("activities", id)
      /\ \A id \in Ids : (db = "open" /\ deleteTask(id)) => Deleted("tasks", id) ]_vars

\* C9 as amended: an update of an absent id resolves and inserts the record;
\* a delete of an absent id resolves and changes nothing, a delete of a
\* present id removes exactly that record.
C9_UpdateInsertsDeleteTolerates ==
  [][ /\ \A a \in StoreActivities :
           (db = "open" /\ updateActivity(a) /\ ~Has("activities", a.id))
             => Upserted("activities", a)
      /\ \A e \in StoreEntries :
           (db = "open" /\ updateVitalityEntry(e) /\ ~Has("vitalityEntries", e.id))
             => Upserted("vitalityEntries", e)
      /\ \A t \in StoreTasks :
           (db = "open" /\ updateTask(t) /\ ~Has("tasks", t.id)) => Upserted("tasks", t)
      /\ \A id \in Ids :
           (db = "open" /\ deleteActivity(id))
             => /\ Deleted("activities", id)
                /\ ~Has("activities", id) => stores' = stores
      /\ \A id \in Ids :
           (db = "open" /\ deleteTask(id))
             => /\ Deleted("tasks", id)
                /\ ~Has("tasks", id) => stores' = stores ]_vars

\* an update of an absent activity resolved and the store now holds it next
\* to the activity that was there
C9_Witness ==
  /\ lastCall.op = "updateActivity"
  /\ lastCall.outcome = "resolved"
  /\ ~lastCall.existed
  /\ lastCall.key \in DOMAIN Records("activities")
  /\ Cardinality(DOMAIN Records("activities")) = 2

\* the records of a sequence, as a set
Range(seq) == {seq[i] : i \in DOMAIN seq}

Stored(storeName) == {Records(storeName)[k] : k \in DOMAIN Records(storeName)}

\* the query resolved with each of the expected records once, and no other
Returns(r, expected) ==
  /\ r.outcome = "resolved"
  /\ Range(r.value) = expected
  /\ Len(r.value) = Cardinality(expected)

RECURSIVE SumOver(_, _)
SumOver(f, S) ==
  IF S = {} THEN 0
  ELSE LET x == CHOOSE y \in S : TRUE IN f[x] + SumOver(f, S \ {x})

CategoryIds == {defaultCategories[i].id : i \in DOMAIN defaultCategories}

BonusIds == {defaultVitalityBonuses[i].id : i \in DOMAIN defaultVitalityBonuses}

BonusPoints(bonusId) ==
  LET i == CHOOSE j \in DOMAIN defaultVitalityBonuses :
             defaultVitalityBonuses[j].id = bonusId
  IN  defaultVitalityBonuses[i].points * PointScale

\* the indices of the day's activities whose category resolves
Resolved == {i \in DOMAIN dayActivities : dayActivities[i].categoryId \in CategoryIds}

\* the indices of the day's completed entries whose bonus resolves
Earned ==
  {i \in DOMAIN dayVitalityEntries :
     dayVitalityEntries[i].completed /\ dayVitalityEntries[i].bonusId \in BonusIds}

LastActivity == dayActivities[Len(dayActivities)]

LastEntry == dayVitalityEntries[Len(dayVitalityEntries)]

\* C1: totalScore is the sum of the points of the activities whose category
\* resolves plus the sum of the bonus points of the completed entries whose
\* bonus resolves, and one more completed entry whose bonus has p points
\* raises totalScore by exactly p.
C1_TotalScoreAdditive ==
  /\ metrics.totalScore =
       SumOver([i \in Resolved |-> dayActivities[i].points], Resolved)
       + SumOver([i \in Earned |-> BonusPoints(dayVitalityEntries[i].bonusId)], Earned)
  /\ (lastAdded = "entry" /\ LastEntry.completed /\ LastEntry.bonusId \in BonusIds)
       => metrics.totalScore = prevMetrics.totalScore + BonusPoints(LastEntry.bonusId)

\* a completed, resolvable entry was added to a day that has a resolvable and
\* a dangling activity
C1_Witness ==
  /\ lastAdded = "entry"
  /\ LastEntry.completed
  /\ LastEntry.bonusId \in BonusIds
  /\ Resolved # {}
  /\ Resolved # DOMAIN dayActivities

\* C2: focusRatio and distractionRatio are within [0, 100], and both are 0
\* when no time was logged.
C2_RatioBounds ==
  /\ RatLeq(RatZero, metrics.focusRatio)
  /\ RatLeq(metrics.focusRatio, RatOfInt(100))
  /\ RatLeq(RatZero, metrics.distractionRatio)
  /\ RatLeq(metrics.distractionRatio, RatOfInt(100))
  /\ metrics.totalTimeLogged = 0
       => /\ RatEq(metrics.focusRatio, RatZero)
          /\ RatEq(metrics.distractionRatio, RatZero)

\* a day with focus, distraction and other time: both ratios strictly inside
C2_Witness ==
  /\ lastAdded = "activity"
  /\ ~RatLeq(metrics.focusRatio, RatZero)
  /\ ~RatLeq(metrics.distractionRatio, RatZero)
  /\ ~RatLeq(RatOfInt(100), Rat(metrics.focusRatio.num + metrics.distractionRatio.num,
                                metrics.totalTimeLogged))

\* C3: productivityThroughput is never negative, and one more activity with
\* negative points never raises it: its points stay out of the numerator and
\* its duration goes into the time logged.
C3_ThroughputSign ==
  /\ RatLeq(RatZero, metrics.productivityThroughput)
  /\ (lastAdded = "activity" /\ LastActivity.points < 0)
       => /\ RatLeq(metrics.productivityThroughput, prevMetrics.productivityThroughput)
          /\ LastActivity.categoryId \in CategoryIds
               => metrics.totalTimeLogged =
                    prevMetrics.totalTimeLogged + LastActivity.duration

\* a negative-point activity was added to a day with positive throughput and
\* lowered it
C3_Witness ==
  /\ lastAdded = "activity"
  /\ LastActivity.points < 0
  /\ LastActivity.categoryId \in CategoryIds
  /\ ~RatLeq(prevMetrics.productivityThroughput, RatZero)
  /\ ~RatLeq(prevMetrics.productivityThroughput, metrics.productivityThroughput)

\* the subsequence of seq at the indices in keep
RECURSIVE SubSeqAt(_, _, _)
SubSeqAt(seq, keep, i) ==
  IF i > Len(seq) THEN << >>
  ELSE (IF i \in keep THEN << seq[i] >> ELSE << >>) \o SubSeqAt(seq, keep, i + 1)

ResolvedEntries ==
  {i \in DOMAIN dayVitalityEntries : dayVitalityEntries[i].bonusId \in BonusIds}

\* C4: an activity whose category is missing and an entry whose bonus is
\* missing contribute to no field: the result is the result for the day with
\* those records removed.
C4_DanglingSkipped ==
  metrics = calculateDailyMetrics(SubSeqAt(dayActivities, Resolved, 1),
                                  defaultCategories,
                                  SubSeqAt(dayVitalityEntries, ResolvedEntries, 1),
                                  defaultVitalityBonuses)

\* a day with a dangling activity, a dangling completed entry and a
\* resolvable activity
C4_Witness ==
  /\ Resolved # {}
  /\ Resolved # DOMAIN dayActivities
  /\ \E i \in DOMAIN dayVitalityEntries :
       dayVitalityEntries[i].completed /\ i \notin ResolvedEntries

ScenarioA == << MetricActivity("deep-work", 120, 3 * 120, "High") >>

\* C5: with durations in minutes, productivityThroughput is the positive
\* points per hour of time logged (0 when no time was logged); one Deep Work
\* activity of 120 minutes at 3 points per hour with energy High gives
\* totalScore 6, focusRatio 100, distractionRatio 0, throughput 3 and 120
\* minutes in the high bucket.
C5_ThroughputPerHour ==
  LET positive == {i \in Resolved : dayActivities[i].points > 0}
      positivePoints == SumOver([i \in positive |-> dayActivities[i].points], positive)
      minutes == SumOver([i \in Resolved |-> dayActivities[i].duration], Resolved)
  IN  /\ minutes > 0 =>
            \* positivePoints / (minutes / 60)
            RatEq(metrics.productivityThroughput, Rat(positivePoints * 60, minutes))
      /\ minutes = 0 => RatEq(metrics.productivityThroughput, RatZero)
      /\ (dayActivities = ScenarioA /\ dayVitalityEntries = << >>) =>
            /\ metrics.totalScore = 6 * PointScale
            /\ RatEq(metrics.focusRatio, RatOfInt(100))
            /\ RatEq(metrics.distractionRatio, RatZero)
            /\ RatEq(metrics.productivityThroughput, RatOfInt(3 * PointScale))
            /\ metrics.energyFocusCorrelation = [high |-> 120, medium |-> 0, low |-> 0]

C5_Witness ==
  /\ dayActivities = ScenarioA
  /\ dayVitalityEntries = << >>
  /\ lastAdded = "activity"

\* ------------------------------------------------------------------------
\* Properties of the duration unit
\* ------------------------------------------------------------------------

RECURSIVE GCD(_, _)
GCD(a, b) == IF b = 0 THEN a ELSE GCD(b, a % b)

\* a quotient with a non-negative numerator, in lowest terms
Reduced(r) == LET g == GCD(r.num, r.den) IN Rat(r.num \div g, r.den \div g)

SameRat(a, b) == Reduced(a) = Reduced(b)

\* the minutes between the start and the end the form was given
FormMinutes(a) == a.endTime.time - a.startTime.time

\* the positive points of the activities per hour between their start and end
PointsPerHour(acts) ==
  LET listed == {i \in DOMAIN acts : acts[i].categoryId \in CategoryIds}
      minutes == SumOver([i \in listed |-> FormMinutes(acts[i])], listed)
      positive == {i \in listed : acts[i].points > 0}
      positivePoints == SumOver([i \in positive |-> acts[i].points], positive)
  IN  IF minutes > 0 THEN Rat(positivePoints * 60, minutes) ELSE RatZero

\* the minutes of the stored activities of the set
MinutesOf(S) == SumOver([a \in S |-> FormMinutes(a)], S)

\* C6: the duration the form writes is read in the same unit everywhere: the
\* throughput shown is the positive points per hour of logged time, the goal
\* progress counts the minutes logged for the goal's category, and the trend
\* chart shows the deep-work hours logged at each energy level.
C6_OneDurationUnit ==
  [][ /\ SameRat(metrics'.productivityThroughput, PointsPerHour(dayActivities'))
      /\ (db = "open" /\ loadData(UnitDay))
           => \A i \in DOMAIN goalProgress' :
                SameRat(goalProgress'[i].actualMinutes,
                        RatOfInt(MinutesOf({a \in Stored("activities") :
                                              a.categoryId =
                                                goalProgress'[i].goal.categoryId})))
      /\ loadTrendData(UnitToday)
           => \A i \in DOMAIN energyFocusData' :
                SameRat(energyFocusData'[i].deepWorkHours,
                        Rat(MinutesOf({a \in Stored("activities") :
                                         /\ a.categoryId = "deep-work"
                                         /\ a.energyLevel = energyFocusData'[i].energyLevel}),
                            60)) ]_vars


\* ------------------------------------------------------------------------
\* Properties of seeding, export and clearing
\* ------------------------------------------------------------------------

\* the records of a store of the given object stores, as a set
StoredIn(objectStores, storeName) ==
  {objectStores[storeName].records[k] : k \in DOMAIN objectStores[storeName].records}

\* the reference collections hold the defaults, each id once
SeededIn(objectStores) ==
  /\ StoredIn(objectStores, "categories") = Range(defaultCategories)
  /\ Cardinality(DOMAIN objectStores["categories"].records) = Len(defaultCategories)
  /\ StoredIn(objectStores, "vitality") = Range(defaultVitalityBonuses)
  /\ Cardinality(DOMAIN objectStores["vitality"].records) = Len(defaultVitalityBonuses)

\* C11: on an open store initializeDefaultData resolves and leaves exactly
\* the six default categories and the four default bonuses, each id once, and
\* touches no other collection; a call that finds them changes nothing.
C11_SeedingIdempotent ==
  [][ (db = "open" /\ initializeDefaultData)
        => /\ lastCall'.outcome = "resolved"
           /\ SeededIn(stores')
           /\ Len(defaultCategories) = 6 /\ Len(defaultVitalityBonuses) = 4
           /\ \A other \in DOMAIN stores \ {"categories", "vitality"} :
                stores'[other] = stores[other]
           /\ SeededIn(stores) => stores' = stores ]_vars

\* a second seeding resolved on a store that holds an activity
C11_Witness ==
  /\ lastCall.op = "initializeDefaultData"
  /\ lastCall.outcome = "resolved"
  /\ lastCall.existed
  /\ SeededIn(stores)
  /\ Records("activities") # << >>

\* the collections the user fills
MutableCollections == {"activities", "vitalityEntries", "tasks", "goals"}

\* C12: the snapshot exportData resolves with holds every record of every
\* collection - the object stores and the daily goals - and an export date.
C12_ExportHoldsEverything ==
  [][ (db = "open" /\ exportData(UnitToday))
        => /\ lastCall'.outcome = "resolved"
           /\ "exportDate" \in DOMAIN lastCall'.value
           /\ \A n \in DOMAIN stores :
                \A record \in StoredIn(stores, n) :
                  /\ n \in DOMAIN lastCall'.value
                  /\ ToJSON(record) \in Range(lastCall'.value[n])
           /\ \A i \in DOMAIN dailyGoals :
                /\ "goals" \in DOMAIN lastCall'.value
                /\ dailyGoals[i] \in Range(lastCall'.value["goals"]) ]_vars

\* C13: the store a snapshot is imported into, fresh before, holds the
\* records of the exporting store, field for field, and its daily goals.
C13_RoundTrip ==
  [][ restoreOnFreshStore(UnitToday)
        => /\ \A n \in DOMAIN stores : StoredIn(stores', n) = StoredIn(stores, n)
           /\ Range(dailyGoals') = Range(dailyGoals) ]_vars

\* C14: clearAllData leaves no activity, vitality entry, task or daily goal
\* to be returned, and the categories and vitality bonuses as they were.
C14_ClearEmptiesUserData ==
  [][ (db = "open" /\ clearAllData)
        => /\ lastCall'.outcome = "resolved"
           /\ \A n \in MutableCollections \cap DOMAIN stores :
                stores'[n].records = << >> /\ stores'[n].dateIndex = {}
           /\ dailyGoals' = << >>
           /\ stores'["categories"] = stores["categories"]
           /\ stores'["vitality"] = stores["vitality"] ]_vars

\* ------------------------------------------------------------------------
\* Properties of the life of the database
\* ------------------------------------------------------------------------

\* C15: every public method other than init() that is called while the
\* manager has no open database (before init() has resolved, after an init()
\* that was rejected, after a page load) rejects with 'Database not
\* initialized', resolves with no value and leaves the object stores, the
\* version on disk and the manager as they were
C15_NotInitializedRejects ==
  [][(db = "null" /\ lastCall'.op \notin {"init", "none"}) =>
       /\ lastCall'.outcome = "rejected"
       /\ lastCall'.error = "NotInitialized"
       /\ lastCall'.value = << >>
       /\ stores' = stores
       /\ diskVersion' = diskVersion
       /\ db' = "null"]_vars

\* an export is rejected on a page that has not opened the database, whose
\* stores hold default data and an activity
C15_Witness ==
  /\ db = "null"
  /\ diskVersion = 1
  /\ lastCall.op = "exportData"
  /\ lastCall.outcome = "rejected"
  /\ lastCall.error = "NotInitialized"
  /\ Records("categories") # << >>
  /\ Records("activities") # << >>

\* C16: init() of build v2 on a database of version 1 resolves, keeps every
\* object store of the database with its index and its records, and adds
\* exactly the tasks store, empty and with its date index
C16_UpgradeIsAdditive ==
  [][(build = "v2" /\ diskVersion = 1 /\ lastCall'.op = "init") =>
       /\ lastCall'.outcome = "resolved"
       /\ db' = "open"
       /\ diskVersion' = 2
       /\ \A n \in DOMAIN stores : n \in DOMAIN stores' /\ stores'[n] = stores[n]
       /\ DOMAIN stores' = DOMAIN stores \cup {"tasks"}
       /\ stores'["tasks"].records = << >>
       /\ stores'["tasks"].hasDateIndex]_vars

\* build v2 has just upgraded a database of version 1 that holds default
\* data, an activity and a vitality entry
C16_Witness ==
  /\ build = "v2"
  /\ lastCall.op = "init"
  /\ lastCall.existed
  /\ diskVersion = 2
  /\ Records("categories") # << >>
  /\ Records("activities") # << >>
  /\ Records("vitalityEntries") # << >>
  /\ Records("tasks") = << >>

\* ------------------------------------------------------------------------
\* Properties of the vitality checklist
\* ------------------------------------------------------------------------

\* C17: whatever toggles are in flight and however their writes and reloads
\* settle, the vitalityEntries store holds at most one entry of a date and a
\* bonus (the handler chooses between add and update on up-to-date entries)
C17_OneEntryPerDateAndBonus ==
  db = "open" =>
    \A e1, e2 \in Stored("vitalityEntries") :
      (e1.date = e2.date /\ e1.bonusId = e2.bonusId) => e1 = e2

\* ------------------------------------------------------------------------
\* Properties of the trend charts
\* ------------------------------------------------------------------------

\* the i-th day (from 1) of the window of TrendDays days that ends on the
\* day of endDate, counted from 2024-01-01
WindowDay(endDate, i) == endDate \div 1440 - (TrendDays - i)

\* the stored records of the day, in key order
StoredOn(storeName, day) ==
  SelectSeq(IDBGetAll(stores[storeName]).value,
            LAMBDA r : r.date = getDateString(Midnight(day)))

\* the stored activities of the window whose category has the name
ActivitiesNamed(name, endDate) ==
  {a \in Stored("activities") :
     /\ \E i \in 1 .. TrendDays : a.date = getDateString(Midnight(WindowDay(endDate, i)))
     /\ \E k \in DOMAIN defaultCategories :
          defaultCategories[k].id = a.categoryId /\ defaultCategories[k].name = name}

CategoryNames == {defaultCategories[k].name : k \in DOMAIN defaultCategories}

\* C18: loadTrendData on an open database (build v1) shows TrendDays entries,
\* the i-th for the i-th day of the window and with the figures of
\* calculateDailyMetrics on the stored activities and vitality entries of
\* that day, all zero for a day without activities and completed entries;
\* the category times are, for each category with activities in the window,
\* the sum of their durations, largest first
C18_TrendPerDay ==
  [][(db = "open" /\ build = "v1" /\ lastCall'.op = "getVitalityEntriesByDate"
        /\ loadTrendData(UnitToday)) =>
       /\ Len(trendData') = TrendDays
       /\ \A i \in 1 .. TrendDays :
            LET day == WindowDay(UnitToday, i)
                acts == StoredOn("activities", day)
                entries == StoredOn("vitalityEntries", day)
                m == calculateDailyMetrics(acts, defaultCategories, entries,
                                           defaultVitalityBonuses)
                shown == trendData'[i]
            IN  /\ shown.date = formatMMMd(Midnight(day))
                /\ shown.totalScore = m.totalScore
                /\ shown.focusRatio = m.focusRatio
                /\ shown.distractionRatio = m.distractionRatio
                /\ shown.productivityThroughput = m.productivityThroughput
                /\ shown.totalTimeLogged = m.totalTimeLogged
                /\ (acts = << >> /\ \A k \in DOMAIN entries : ~entries[k].completed)
                     => /\ shown.totalScore = 0
                        /\ shown.focusRatio = RatZero
                        /\ shown.distractionRatio = RatZero
                        /\ shown.productivityThroughput = RatZero
                        /\ shown.totalTimeLogged = 0
       /\ {categoryTimeData'[k].name : k \in DOMAIN categoryTimeData'}
            = {name \in CategoryNames : ActivitiesNamed(name, UnitToday) # {}}
       /\ \A k \in DOMAIN categoryTimeData' :
            LET S == ActivitiesNamed(categoryTimeData'[k].name, UnitToday)
            IN  /\ categoryTimeData'[k].minutes = SumOver([a \in S |-> a.duration], S)
                /\ \A j \in DOMAIN categoryTimeData' :
                     /\ j < k => categoryTimeData'[j].minutes >= categoryTimeData'[k].minutes
                     /\ j # k => categoryTimeData'[j].name # categoryTimeData'[k].name]_vars

\* the charts show a window with a day of activities, days without, and
\* the time of two categories
C18_Witness ==
  /\ Len(trendData) = TrendDays
  /\ \E i, j \in DOMAIN trendData :
       /\ trendData[i].totalTimeLogged > 0
       /\ trendData[j].totalTimeLogged = 0 /\ trendData[j].totalScore = 0
  /\ Len(categoryTimeData) = 2

\* ------------------------------------------------------------------------
\* Properties of the calendar's colours
\* ------------------------------------------------------------------------

\* the classes of the six tiers, lowest first
ColorClasses ==
  << "bg-gray-300", "bg-red-500", "bg-orange-500", "bg-yellow-500", "bg-green-500",
     "bg-emerald-500" >>

OpacityClasses ==
  << "opacity-10", "opacity-30", "opacity-40", "opacity-60", "opacity-80", "opacity-100" >>

\* the tiers the class is the class of
TiersOf(class, classes) == {t \in DOMAIN classes : classes[t] = class}

\* C19: the colour and the opacity of a day of any score, negative and
\* fractional ones among them, are each the class of exactly one of the six
\* tiers and of the same tier, no lower score has a higher tier, and every
\* tier is the tier of some score
C19_ScoreTiers ==
  /\ Cardinality(TiersOf(dayCell.color, ColorClasses)) = 1
  /\ Cardinality(TiersOf(dayCell.opacity, OpacityClasses)) = 1
  /\ TiersOf(dayCell.color, ColorClasses) = TiersOf(dayCell.opacity, OpacityClasses)
  /\ \A score \in Scores :
       score <= dayCell.totalScore =>
         \A t \in TiersOf(getScoreColor(score), ColorClasses),
            u \in TiersOf(dayCell.color, ColorClasses) : t <= u
  /\ \A t \in 1 .. 6 :
       \E score \in Scores :
         /\ getScoreColor(score) = ColorClasses[t]
         /\ getScoreOpacity(score) = OpacityClasses[t]

\* a day of a score a sixtieth below 5 points is red at opacity 30
C19_Witness ==
  /\ dayCell.totalScore = 5 * PointScale - 1
  /\ dayCell.color = "bg-red-500"
  /\ dayCell.opacity = "opacity-30"

\* ------------------------------------------------------------------------
\* Properties of the pages' mount effects
\* ------------------------------------------------------------------------

\* C20: whichever page the app is opened at, a call of the page's mount
\* effect other than init() is made when the database is open (the page's
\* own await of db.init() has resolved)
C20_PagesInitFirst ==
  [][(/\ mounted'.page = mounted.page
      /\ mounted'.pc # mounted.pc
      /\ lastCall'.op \notin {"init", "none"}) => db = "open"]_vars

\* ------------------------------------------------------------------------
\* Properties of the monthly calendar
\* ------------------------------------------------------------------------

\* what the store holds for a date, as the by-date queries return it
StoredFor(objectStores, storeName, dateString) ==
  RequestIn(objectStores, storeName, "index.getAll", KeyRangeOnly(dateString)).value

\* C21: whenever loadMonthData sets monthData, the totalScore of every day
\* of the grid is calculateDailyMetrics(...).totalScore of the activities
\* and vitality entries stored for that day, also for a day that has
\* vitality entries and no activity
C21_MonthScoresAreDayScores ==
  [][calendar'.monthData # calendar.monthData =>
       \A i \in 1 .. Len(calendar'.monthData) :
         LET dayData == calendar'.monthData[i]
         IN  dayData.totalScore =
               calculateDailyMetrics(
                 StoredFor(stores', "activities", dayData.dateString),
                 defaultCategories,
                 StoredFor(stores', "vitalityEntries", dayData.dateString),
                 defaultVitalityBonuses).totalScore]_vars

\* ------------------------------------------------------------------------
\* Properties of the energy buckets
\* ------------------------------------------------------------------------

\* the total duration of the activities of the array whose category is
\* listed and has the name
TimeOfCategory(acts, name) ==
  LET S == {k \in DOMAIN acts :
              \E c \in DOMAIN defaultCategories :
                /\ defaultCategories[c].id = acts[k].categoryId
                /\ defaultCategories[c].name = name}
  IN  SumOver([k \in S |-> acts[k].duration], S)

\* the metrics of the i-th day of the window that ends today
WindowMetrics(i) ==
  calculateDailyMetrics(StoredOn("activities", WindowDay(UnitToday, i)),
                        defaultCategories,
                        StoredOn("vitalityEntries", WindowDay(UnitToday, i)),
                        defaultVitalityBonuses)

\* C22: for every day of the window loadTrendData shows, the three energy
\* buckets of calculateDailyMetrics add up to the total duration of the
\* day's activities of the listed category named Deep Work, and focusRatio
\* is 100 times that over totalTimeLogged when time was logged; the
\* roll-up of the window is, bucket by bucket, the sum of the days' buckets
C22_EnergyBucketsAddUp ==
  [][(db = "open" /\ build = "v1" /\ lastCall'.op = "getVitalityEntriesByDate"
        /\ loadTrendData(UnitToday)) =>
       /\ \A i \in 1 .. TrendDays :
            LET m == WindowMetrics(i)
                buckets == m.energyFocusCorrelation.high + m.energyFocusCorrelation.medium
                             + m.energyFocusCorrelation.low
            IN  /\ buckets = TimeOfCategory(StoredOn("activities", WindowDay(UnitToday, i)),
                                            "Deep Work")
                /\ m.totalTimeLogged > 0 =>
                     RatEq(m.focusRatio, Rat(100 * buckets, m.totalTimeLogged))
       /\ LET days == 1 .. TrendDays
              rollUp(level) ==
                CHOOSE k \in DOMAIN energyFocusData' : energyFocusData'[k].energyLevel = level
          IN  /\ {energyFocusData'[k].energyLevel : k \in DOMAIN energyFocusData'}
                   = {"High", "Medium", "Low"}
              /\ energyFocusData'[rollUp("High")].deepWorkHours =
                   Rat(SumOver([i \in days |-> WindowMetrics(i).energyFocusCorrelation.high],
                               days), 60)
              /\ energyFocusData'[rollUp("Medium")].deepWorkHours =
                   Rat(SumOver([i \in days |-> WindowMetrics(i).energyFocusCorrelation.medium],
                               days), 60)
              /\ energyFocusData'[rollUp("Low")].deepWorkHours =
                   Rat(SumOver([i \in days |-> WindowMetrics(i).energyFocusCorrelation.low],
                               days), 60)]_vars

\* the roll-up holds deep work of two days of the window at high energy
C22_Witness ==
  /\ Len(energyFocusData) = 3
  /\ energyFocusData[1].deepWorkHours = Rat(120, 60)
  /\ Cardinality({a.date : a \in Stored("activities")}) = 2

\* ------------------------------------------------------------------------
\* Properties of the activity form
\* ------------------------------------------------------------------------

\* a field is missing, the category is not listed, or the end is not after
\* the start ("HH:MM" strings order as their times do)
InvalidFields ==
  \/ form.name = "" \/ form.categoryId = ""
  \/ form.startTime = << >> \/ form.endTime = << >>
  \/ form.categoryId \notin CategoryIds
  \/ KeyLeq(form.endTime, form.startTime)

\* the activities of the given object stores, none before the upgrade
ActivitiesIn(objectStores) ==
  IF "activities" \in DOMAIN objectStores THEN StoredIn(objectStores, "activities") ELSE {}

\* C23: every activity a submission of the form writes, new or edited, ends
\* after it starts, has the milliseconds between its times as duration and
\* the points of the category selected in the form for that many hours; an
\* edit writes under the id of the activity being edited and adds no
\* record; a submission with a missing field, an unlisted category or an
\* end not after the start writes nothing
C23_SubmitDerivesFields ==
  [][(\E uuid \in Ids : onSubmit(uuid, UnitDay)) =>
       /\ InvalidFields => stores' = stores
       /\ \A a \in ActivitiesIn(stores') \ ActivitiesIn(stores) :
            /\ a.endTime.time > a.startTime.time
            /\ a.duration = (a.endTime.time - a.startTime.time) * MsPerMinute
            /\ \E k \in DOMAIN defaultCategories :
                 /\ defaultCategories[k].id = form.categoryId
                 /\ a.categoryId = form.categoryId
                 /\ a.points * MsPerHour =
                      defaultCategories[k].points * PointScale * a.duration
            /\ form.editingActivity # << >> =>
                 /\ a.id = form.editingActivity[1].id
                 /\ Cardinality(ActivitiesIn(stores'))
                      <= Cardinality(ActivitiesIn(stores)) + 1
                 /\ Has("activities", a.id) =>
                      Cardinality(ActivitiesIn(stores'))
                        = Cardinality(ActivitiesIn(stores))]_vars

\* the edit of an activity was submitted and stored: an hour of
\* distraction
C23_Witness ==
  /\ form.toast = "Activity Updated"
  /\ \E a \in Stored("activities") :
       a.categoryId = "distraction" /\ a.points < 0 /\ a.duration = 60 * MsPerMinute

\* ------------------------------------------------------------------------
\* Properties of the goals
\* ------------------------------------------------------------------------

\* C24: every goal in localStorage has targetMinutes > 0, whatever was
\* added, updated and removed (an update to zero or to a negative number
\* leaves the goal as it was), and every progressPercentage shown is a
\* number from 0 to 100
C24_GoalTargetsPositive ==
  /\ \A i \in DOMAIN dailyGoals : dailyGoals[i].targetMinutes > 0
  /\ \A i \in DOMAIN goalProgress :
       LET shown == goalProgress[i].progressPercentage
       IN  /\ shown.den > 0
           /\ shown.num >= 0
           /\ RatLeq(shown, RatOfInt(100))

\* ------------------------------------------------------------------------
\* Properties of the date keys
\* ------------------------------------------------------------------------

\* C25: in every time zone, the date string under which a cell of the
\* calendar looks up its records is the calendar day the cell shows:
\* getDateString of the cell's local midnight is that day, not the day
\* before or after
C25_DateKeyIsLocalDay ==
  \A i \in DOMAIN calendar.monthData :
    calendar.monthData[i].dateString = getDateString(Midnight(calendar.monthData[i].date))

\* ------------------------------------------------------------------------
\* Properties of loads in flight
\* ------------------------------------------------------------------------

\* C26: when a load of the calendar settles, the loading flag is cleared
\* only if no other load is outstanding, and once none is the days shown
\* are those of the month now selected, as the store holds them
C26_LatestMonthWins ==
  [][(\E i \in 1 .. MaxLoads : monthLoadSettles(i)) =>
       /\ ~calendar'.loading => calendar'.loads = << >>
       /\ calendar'.loads = << >> =>
            calendar'.monthData = LoadedMonth(stores', calendar'.currentMonth).monthData]_vars

\* ------------------------------------------------------------------------
\* Properties of the tasks page
\* ------------------------------------------------------------------------

\* the tasks of the given object stores, none before the upgrade
TasksIn(objectStores) ==
  IF "tasks" \in DOMAIN objectStores THEN StoredIn(objectStores, "tasks") ELSE {}

\* C27: when the write of a handler of the tasks page settles, every task
\* stored before is stored after, unchanged or, being the task a toggle
\* was for, changed in completed only; and once no handler awaits a write
\* the list of the page holds the tasks of the store and no other
C27_TaskListIsStore ==
  [][taskWriteSettles =>
       /\ \A t \in TasksIn(stores) :
            \E u \in TasksIn(stores') :
              /\ u.id = t.id
              /\ \/ u = t
                 \/ /\ Head(tasksPage.calls).op = "updateTask"
                    /\ Head(tasksPage.calls).task.id = t.id
                    /\ u = [t EXCEPT !.completed = u.completed]
       /\ tasksPage'.calls = << >> => Range(tasksPage'.tasks) = TasksIn(stores')]_vars

\* ------------------------------------------------------------------------
\* Properties of seeding
\* ------------------------------------------------------------------------

\* a call of initializeDefaultData returns in this step
SeedReturns ==
  /\ Len(seeds') < Len(seeds)
  /\ lastCall'.op = "initializeDefaultData"

\* C28: every call of initializeDefaultData, alone or interleaved with
\* another on the empty store, resolves, and once none is in flight the
\* store holds exactly the six default categories and the four default
\* bonuses, each once
C28_InterleavedSeedsResolve ==
  [][SeedReturns =>
       /\ lastCall'.outcome = "resolved"
       /\ seeds' = << >> => SeededIn(stores')]_vars

\* C29: when a call of initializeDefaultData resolves and no other call
\* is in flight, the categories hold the six defaults and the vitality
\* bonuses the four, whatever a call that did not finish left behind
C29_ResolvedSeedIsComplete ==
  [][SeedReturns /\ lastCall'.outcome = "resolved" /\ seeds' = << >> =>
       /\ Range(defaultCategories) \subseteq StoredIn(stores', "categories")
       /\ Range(defaultVitalityBonuses) \subseteq StoredIn(stores', "vitality")]_vars

\* ------------------------------------------------------------------------
\* Properties of the vitality checklist
\* ------------------------------------------------------------------------

\* C30: for the vitality entries the Dashboard shows, the earned points of
\* the checklist are the vitality part of calculateDailyMetrics' totalScore
\* (the totalScore of the same entries with no activity)
C30_ChecklistPointsAreVitalityScore ==
  earnedPoints(defaultVitalityBonuses, dayVitalityEntries) * PointScale
    = calculateDailyMetrics(<< >>, defaultCategories, dayVitalityEntries,
                            defaultVitalityBonuses).totalScore

====
